---- MODULE Spec2Model ----
(***************************************************************************)
(* Scenario derivation, assumption adjustment and cashflow normalisation   *)
(* of the construction cost estimator (src/services/reportService.ts),     *)
(* the scenario comparison built on them, and the estimator's input form   *)
(* (src/components/ResultsDashboard.tsx).                                  *)
(*                                                                         *)
(* Strings are sequences of one-character strings, so that toLowerCase,    *)
(* String.includes and String.replace are computed as the code computes    *)
(* them.  JavaScript numbers are modelled exactly: integers where the code *)
(* rounds with Math.round, and rationals (records n/d, with NaN and the    *)
(* infinities as separate kinds) where it does not.  A product is rounded  *)
(* as the exact product; an IEEE-754 double product can differ from it     *)
(* only when the exact product lies within one ulp of a half.              *)
(***************************************************************************)
EXTENDS Integers, Sequences, FiniteSets, TLC

VARIABLES base, baseQuality, out, outQuality, op, path, assumptions, timelineMonths,
          inputs, error, estimateCalls,
          queue, processing, loops, sinceLastRequest, retry,
          added, started, calls, sinceStart, lastSpacing,
          dashboard, panel, app

\* The state of EstimatorForm: its inputs, its error, and the arguments of
\* the calls of onEstimate.
formVars == <<inputs, error, estimateCalls>>

\* The request queue: the fields of TaskQueue, the activations of its
\* process loop, the time since lastRequestTime, and the state of each
\* caller's retryWithBackoff; then the tasks added and started so far, how
\* often each caller's fn was invoked, the time since the latest remote call
\* began, and the spacing of the latest two calls.
queueVars ==
  <<queue, processing, loops, sinceLastRequest, retry,
    added, started, calls, sinceStart, lastSpacing>>

\* The state of ResultsDashboard, of its EditableAssumptionsPanel, and of App.
uiVars == <<dashboard, panel, app>>

\* The state of the components other than the one a machine is about.
componentVars == <<formVars, queueVars, uiVars>>

vars == <<base, baseQuality, out, outQuality, op, path, assumptions, timelineMonths,
          inputs, error, estimateCalls,
          queue, processing, loops, sinceLastRequest, retry,
          added, started, calls, sinceStart, lastSpacing,
          dashboard, panel, app>>

----------------------------------------------------------------------------
(* Strings *)

\* String.prototype.toLowerCase on one character (ASCII letters).
LowerChar(c) ==
  CASE c = "A" -> "a" [] c = "B" -> "b" [] c = "C" -> "c" [] c = "D" -> "d"
    [] c = "E" -> "e" [] c = "F" -> "f" [] c = "G" -> "g" [] c = "H" -> "h"
    [] c = "I" -> "i" [] c = "J" -> "j" [] c = "K" -> "k" [] c = "L" -> "l"
    [] c = "M" -> "m" [] c = "N" -> "n" [] c = "O" -> "o" [] c = "P" -> "p"
    [] c = "Q" -> "q" [] c = "R" -> "r" [] c = "S" -> "s" [] c = "T" -> "t"
    [] c = "U" -> "u" [] c = "V" -> "v" [] c = "W" -> "w" [] c = "X" -> "x"
    [] c = "Y" -> "y" [] c = "Z" -> "z" [] OTHER -> c

\* String.prototype.toLowerCase.
toLowerCase(s) == [i \in 1..Len(s) |-> LowerChar(s[i])]

\* Whether pat occurs in s at position i (1-based).
MatchesAt(s, pat, i) ==
  /\ i + Len(pat) - 1 <= Len(s)
  /\ \A j \in 1..Len(pat) : s[i + j - 1] = pat[j]

\* String.prototype.includes.
includes(s, pat) == \E i \in 1..(Len(s) + 1) : MatchesAt(s, pat, i)

\* String.prototype.replace(new RegExp(pat, 'g'), rep) for a pattern without
\* regular-expression metacharacters: every non-overlapping occurrence,
\* scanning from the left.
RECURSIVE ReplaceFrom(_, _, _, _)
ReplaceFrom(s, pat, rep, i) ==
  IF i > Len(s) THEN <<>>
  ELSE IF Len(pat) > 0 /\ MatchesAt(s, pat, i)
       THEN rep \o ReplaceFrom(s, pat, rep, i + Len(pat))
       ELSE <<s[i]>> \o ReplaceFrom(s, pat, rep, i + 1)

replaceAll(s, pat, rep) == ReplaceFrom(s, pat, rep, 1)

\* One decimal digit as a character.
DigitChar(k) ==
  CASE k = 0 -> "0" [] k = 1 -> "1" [] k = 2 -> "2" [] k = 3 -> "3" [] k = 4 -> "4"
    [] k = 5 -> "5" [] k = 6 -> "6" [] k = 7 -> "7" [] k = 8 -> "8" [] OTHER -> "9"

\* Number-to-string conversion of a template literal, for a natural number.
RECURSIVE NatToString(_)
NatToString(k) ==
  IF k < 10 THEN <<DigitChar(k)>>
  ELSE NatToString(k \div 10) \o <<DigitChar(k % 10)>>

----------------------------------------------------------------------------
(* QualityLevel and the category vocabulary *)

ECONOMY == <<"E","c","o","n","o","m","y">>
STANDARD == <<"S","t","a","n","d","a","r","d">>
PREMIUM == <<"P","r","e","m","i","u","m">>

QualityLevel == {ECONOMY, STANDARD, PREMIUM}

KwMaterial == <<"m","a","t","e","r","i","a","l">>
KwLabor == <<"l","a","b","o","r">>
KwWage == <<"w","a","g","e">>
KwManpower == <<"m","a","n","p","o","w","e","r">>
KwEquipment == <<"e","q","u","i","p","m","e","n","t">>
KwTool == <<"t","o","o","l">>
KwPermit == <<"p","e","r","m","i","t">>
KwApproval == <<"a","p","p","r","o","v","a","l">>
KwContingency == <<"c","o","n","t","i","n","g","e","n","c","y">>

----------------------------------------------------------------------------
(* Arithmetic *)

\* Math.round of the rational n/d, d > 0: the nearest integer, halves up.
Round(n, d) == (2 * n + d) \div (2 * d)

\* <<q, r>> with a * n = q * d + r and 0 <= r < d, for n >= 0 and d > 0, by
\* doubling: no intermediate value exceeds 2 * d or the quotient, where the
\* product a * n itself would not fit the checker's integers.
RECURSIVE MulDiv(_, _, _)
MulDiv(a, n, d) ==
  IF n = 0 THEN <<0, 0>>
  ELSE
    LET h == MulDiv(a, n \div 2, d)
        q2 == 2 * h[1] + ((2 * h[2]) \div d)
        r2 == (2 * h[2]) % d
    IN IF n % 2 = 0 THEN <<q2, r2>>
       ELSE <<q2 + (a \div d) + ((r2 + (a % d)) \div d), (r2 + (a % d)) % d>>

\* Math.round(a * (n / d)) for n >= 0 and d > 0.
RoundMul(a, n, d) ==
  LET qr == MulDiv(a, n, d) IN
  qr[1] + (IF 2 * qr[2] >= d THEN 1 ELSE 0)

RECURSIVE SumCost(_)
SumCost(breakdown) ==
  IF breakdown = <<>> THEN 0
  ELSE breakdown[1].cost + SumCost(Tail(breakdown))

RECURSIVE SumAmount(_)
SumAmount(cashflow) ==
  IF cashflow = <<>> THEN 0
  ELSE cashflow[1].amount + SumAmount(Tail(cashflow))

Abs(x) == IF x < 0 THEN -x ELSE x

Sign(x) == IF x < 0 THEN -1 ELSE IF x > 0 THEN 1 ELSE 0

RECURSIVE GCD(_, _)
GCD(a, b) == IF b = 0 THEN a ELSE GCD(b, a % b)

\* A JavaScript number that Math.round has not made an integer: the rational
\* n/d in lowest terms, NaN, or an infinity with its sign in n.
Rat(n, d) ==
  LET g == GCD(Abs(n), d) IN [k |-> "num", n |-> n \div g, d |-> d \div g]

NumInt(i) == [k |-> "num", n |-> i, d |-> 1]
NaN == [k |-> "NaN", n |-> 0, d |-> 1]
Infinity(sign) == [k |-> "Infinity", n |-> sign, d |-> 1]

IsFinite(x) == x.k = "num"

\* x * y.
NumMul(x, y) ==
  IF x.k = "NaN" \/ y.k = "NaN" THEN NaN
  ELSE IF x.k = "Infinity" \/ y.k = "Infinity"
       THEN (IF x.n = 0 \/ y.n = 0 THEN NaN ELSE Infinity(Sign(x.n) * Sign(y.n)))
  ELSE LET g1 == GCD(Abs(x.n), y.d)
           g2 == GCD(Abs(y.n), x.d)
       IN [k |-> "num",
           n |-> (x.n \div g1) * (y.n \div g2),
           d |-> (x.d \div g2) * (y.d \div g1)]

\* x / y.
NumDiv(x, y) ==
  IF x.k = "NaN" \/ y.k = "NaN" THEN NaN
  ELSE IF y.k = "Infinity"
       THEN (IF x.k = "Infinity" THEN NaN ELSE NumInt(0))
  ELSE IF y.n = 0
       THEN (IF x.n = 0 THEN NaN ELSE Infinity(Sign(x.n)))
  ELSE IF x.k = "Infinity" THEN Infinity(Sign(x.n) * Sign(y.n))
  ELSE NumMul(x, [k |-> "num", n |-> Sign(y.n) * y.d, d |-> Abs(y.n)])

\* x + y.
NumAdd(x, y) ==
  IF x.k = "NaN" \/ y.k = "NaN" THEN NaN
  ELSE IF x.k = "Infinity" /\ y.k = "Infinity"
       THEN (IF x.n = y.n THEN x ELSE NaN)
  ELSE IF x.k = "Infinity" THEN x
  ELSE IF y.k = "Infinity" THEN y
  ELSE LET g == GCD(x.d, y.d) IN
       Rat(x.n * (y.d \div g) + y.n * (x.d \div g), (x.d \div g) * y.d)

NumSub(x, y) == NumAdd(x, NumMul(NumInt(-1), y))

\* x <= y for finite x and y.
NumLeq(x, y) == x.n * y.d <= y.n * x.d

NumAbs(x) == [x EXCEPT !.n = Abs(x.n)]

\* Math.round of a number: NaN and the infinities are returned as they are.
NumRound(x) == IF x.k = "num" THEN NumInt(Round(x.n, x.d)) ELSE x

\* reduce((sum, item) => sum + item.cost, 0) over rational costs.
RECURSIVE NumSumCost(_)
NumSumCost(breakdown) ==
  IF breakdown = <<>> THEN NumInt(0)
  ELSE NumAdd(breakdown[1].cost, NumSumCost(Tail(breakdown)))

RECURSIVE NumSumAmount(_)
NumSumAmount(cashflow) ==
  IF cashflow = <<>> THEN NumInt(0)
  ELSE NumAdd(cashflow[1].amount, NumSumAmount(Tail(cashflow)))

----------------------------------------------------------------------------
(* Scenario Deriver *)

\* factors: the overall cost factor of a quality, in hundredths.
factors(quality) ==
  CASE quality = ECONOMY -> 75 [] quality = STANDARD -> 100 [] OTHER -> 135

\* conversionRatio = factors[targetQuality] / factors[baseQuality], as
\* <<numerator, denominator>>.  The code computes it and does not use it.
conversionRatio(baseQ, targetQ) == <<factors(targetQ), factors(baseQ)>>

\* Variant of categoryMultipliers whose equipment row falls with the quality.
categoryMultipliersFallingEquipment(type, quality) ==
  CASE type = "material" ->
         (CASE quality = ECONOMY -> 70 [] quality = STANDARD -> 100 [] OTHER -> 150)
    [] type = "labor" ->
         (CASE quality = ECONOMY -> 80 [] quality = STANDARD -> 100 [] OTHER -> 130)
    [] type = "equipment" ->
         (CASE quality = ECONOMY -> 110 [] quality = STANDARD -> 100 [] OTHER -> 90)
    [] OTHER ->
         (CASE quality = ECONOMY -> 75 [] quality = STANDARD -> 100 [] OTHER -> 135)

\* categoryMultipliers, in hundredths.
categoryMultipliers(type, quality) ==
  CASE type = "material" ->
         (CASE quality = ECONOMY -> 70 [] quality = STANDARD -> 100 [] OTHER -> 150)
    [] type = "labor" ->
         (CASE quality = ECONOMY -> 80 [] quality = STANDARD -> 100 [] OTHER -> 130)
    [] type = "equipment" ->
         (CASE quality = ECONOMY -> 90 [] quality = STANDARD -> 100 [] OTHER -> 110)
    [] OTHER ->
         (CASE quality = ECONOMY -> 75 [] quality = STANDARD -> 100 [] OTHER -> 135)

\* Variant of CategoryType that tests the labor words before material.
CategoryTypeLaborFirst(category) ==
  LET cat == toLowerCase(category) IN
  IF includes(cat, KwLabor) \/ includes(cat, KwWage) \/ includes(cat, KwManpower)
  THEN "labor"
  ELSE IF includes(cat, KwMaterial) THEN "material"
  ELSE IF includes(cat, KwEquipment) \/ includes(cat, KwTool) THEN "equipment"
  ELSE IF includes(cat, KwPermit) \/ includes(cat, KwApproval) THEN "permit"
  ELSE IF includes(cat, KwContingency) THEN "contingency"
  ELSE "default"

\* The class getCategoryRatio gives a category: first match wins.
CategoryType(category) ==
  LET cat == toLowerCase(category) IN
  IF includes(cat, KwMaterial) THEN "material"
  ELSE IF includes(cat, KwLabor) \/ includes(cat, KwWage) \/ includes(cat, KwManpower)
       THEN "labor"
  ELSE IF includes(cat, KwEquipment) \/ includes(cat, KwTool) THEN "equipment"
  ELSE IF includes(cat, KwPermit) \/ includes(cat, KwApproval) THEN "permit"
  ELSE IF includes(cat, KwContingency) THEN "contingency"
  ELSE "default"

\* Variant of getCategoryRatio without the contingency branch: a contingency
\* item is scaled by the default row.
getCategoryRatioScalingContingency(category, baseQ, targetQ) ==
  LET type == CategoryType(category) IN
  IF type = "permit" THEN <<1, 1>>
  ELSE <<categoryMultipliers(type, targetQ), categoryMultipliers(type, baseQ)>>

\* getCategoryRatio: the ratio new/old as <<numerator, denominator>>.
getCategoryRatio(category, baseQ, targetQ) ==
  LET type == CategoryType(category) IN
  IF type \in {"permit", "contingency"} THEN <<1, 1>>
  ELSE <<categoryMultipliers(type, targetQ), categoryMultipliers(type, baseQ)>>

\* The two chained replaces of the quality name, canonical then lower case.
RenameQuality(text, baseQ, targetQ) ==
  replaceAll(replaceAll(text, baseQ, targetQ), toLowerCase(baseQ), toLowerCase(targetQ))

\* Variant of DeriveItem that rounds the ratio, not the product:
\* item.cost * Math.round(ratio).
DeriveItemRoundingRatio(item, baseQ, targetQ) ==
  LET ratio == getCategoryRatio(item.category, baseQ, targetQ) IN
  [item EXCEPT !.cost = item.cost * Round(ratio[1], ratio[2]),
               !.description = RenameQuality(item.description, baseQ, targetQ)]

\* One element of newBreakdown.
DeriveItem(item, baseQ, targetQ) ==
  LET ratio == getCategoryRatio(item.category, baseQ, targetQ) IN
  [item EXCEPT !.cost = RoundMul(item.cost, ratio[1], ratio[2]),
               !.description = RenameQuality(item.description, baseQ, targetQ)]

DeriveBreakdown(breakdown, baseQ, targetQ) ==
  [i \in 1..Len(breakdown) |-> DeriveItem(breakdown[i], baseQ, targetQ)]

\* Math.round(c.amount * totalRatio), totalRatio = newTotal / oldTotal or 1.
DeriveCashflow(cashflow, oldTotal, newTotal) ==
  [i \in 1..Len(cashflow) |->
     [cashflow[i] EXCEPT !.amount =
        IF oldTotal > 0 THEN RoundMul(cashflow[i].amount, newTotal, oldTotal)
        ELSE cashflow[i].amount]]

DerivedReason(b, baseQ) ==
  <<"D","e","r","i","v","e","d"," ","f","r","o","m"," ">> \o baseQ \o <<" ","(">>
    \o NatToString(b.confidenceScore)
    \o <<"%",")"," ","f","o","r"," ","c","o","m","p","a","r","i","s","o","n">>

\* The returned object: the base with total, breakdown, cashflow, summary and
\* confidenceReason replaced.
BuildScenario(b, baseQ, targetQ, newBreakdown, newTotal) ==
  [b EXCEPT !.totalEstimatedCost = newTotal,
            !.breakdown = newBreakdown,
            !.cashflow = DeriveCashflow(b.cashflow, b.totalEstimatedCost, newTotal),
            !.summary = RenameQuality(b.summary, baseQ, targetQ),
            !.confidenceReason = DerivedReason(b, baseQ)]

\* Variant of deriveScenarioFromBase that scales the total by conversionRatio
\* instead of summing the adjusted breakdown.
deriveScenarioScalingTotal(b, baseQ, targetQ) ==
  IF baseQ = targetQ THEN b
  ELSE
    LET ratio == conversionRatio(baseQ, targetQ) IN
    BuildScenario(b, baseQ, targetQ, DeriveBreakdown(b.breakdown, baseQ, targetQ),
                  RoundMul(b.totalEstimatedCost, ratio[1], ratio[2]))

\* Variant of deriveScenarioFromBase without the early return for
\* baseQuality === targetQuality.
deriveScenarioWithoutEarlyReturn(b, baseQ, targetQ) ==
  LET newBreakdown == DeriveBreakdown(b.breakdown, baseQ, targetQ) IN
  BuildScenario(b, baseQ, targetQ, newBreakdown, SumCost(newBreakdown))

deriveScenarioFromBase(b, baseQ, targetQ) ==
  IF baseQ = targetQ THEN b
  ELSE
    LET newBreakdown == DeriveBreakdown(b.breakdown, baseQ, targetQ) IN
    BuildScenario(b, baseQ, targetQ, newBreakdown, SumCost(newBreakdown))

----------------------------------------------------------------------------
(* Assumption Adjuster *)

\* The multiplier applyAssumptions gives a category: material, then
\* labor|manpower, then equipment, otherwise 1.0.
AssumptionMultiplier(category, a) ==
  LET cat == toLowerCase(category) IN
  IF includes(cat, KwMaterial) THEN a.materialCostMultiplier
  ELSE IF includes(cat, KwLabor) \/ includes(cat, KwManpower) THEN a.laborRateMultiplier
  ELSE IF includes(cat, KwEquipment) THEN a.equipmentCostMultiplier
  ELSE NumInt(1)

\* adjustedBreakdown: every cost times its multiplier.
AdjustBreakdown(breakdown, a) ==
  [i \in 1..Len(breakdown) |->
     [breakdown[i] EXCEPT
        !.cost = NumMul(NumInt(breakdown[i].cost),
                        AssumptionMultiplier(breakdown[i].category, a))]]

\* adjustedTotal before the contingency is added: the sum of the adjusted
\* breakdown, or without a breakdown the total times the three multipliers.
AdjustedSubtotal(b, a) ==
  IF Len(b.breakdown) > 0 THEN NumSumCost(AdjustBreakdown(b.breakdown, a))
  ELSE NumMul(NumInt(b.totalEstimatedCost),
              NumMul(NumMul(a.materialCostMultiplier, a.laborRateMultiplier),
                     a.equipmentCostMultiplier))

\* adjustedTotal *= (1 + contingencyPercentage / 100)
AddContingency(subtotal, a) ==
  NumMul(subtotal, NumAdd(NumInt(1), NumDiv(a.contingencyPercentage, NumInt(100))))

\* adjustedCashflow: every amount times totalMultiplier.
AdjustCashflow(cashflow, totalMultiplier) ==
  [i \in 1..Len(cashflow) |->
     [cashflow[i] EXCEPT !.amount = NumMul(NumInt(cashflow[i].amount), totalMultiplier)]]

AdjustedSuffix ==
  <<" ","(","A","d","j","u","s","t","e","d"," ","w","i","t","h"," ",
    "a","s","s","u","m","p","t","i","o","n","s",")">>

\* item.category.toLowerCase() raises a TypeError on an item that has no
\* category.
CategoryMissing(item) == "category" \notin DOMAIN item

applyAssumptionsThrows(b) ==
  \E i \in 1..Len(b.breakdown) : CategoryMissing(b.breakdown[i])

\* Variant of applyAssumptions that scales the cashflow by the total before
\* the contingency is added.
applyAssumptionsScalingBySubtotal(b, a) ==
  LET subtotal == AdjustedSubtotal(b, a)
      totalMultiplier == NumDiv(subtotal, NumInt(b.totalEstimatedCost))
  IN [b EXCEPT !.totalEstimatedCost = AddContingency(subtotal, a),
               !.breakdown = AdjustBreakdown(b.breakdown, a),
               !.cashflow = AdjustCashflow(b.cashflow, totalMultiplier),
               !.summary = b.summary \o AdjustedSuffix]

applyAssumptions(b, a) ==
  LET adjustedTotal == AddContingency(AdjustedSubtotal(b, a), a)
      totalMultiplier == NumDiv(adjustedTotal, NumInt(b.totalEstimatedCost))
  IN [b EXCEPT !.totalEstimatedCost = adjustedTotal,
               !.breakdown = AdjustBreakdown(b.breakdown, a),
               !.cashflow = AdjustCashflow(b.cashflow, totalMultiplier),
               !.summary = b.summary \o AdjustedSuffix]

\* The earlier applyAssumptions kept beside the panel: material, labor|wage,
\* equipment, and a contingency item recomputed from the base's other items.
EarlierAdjustItem(item, breakdown, a) ==
  LET cat == toLowerCase(item.category)
      others == SelectSeq(breakdown,
                          LAMBDA x : ~includes(toLowerCase(x.category), KwContingency))
  IN IF includes(cat, KwMaterial)
     THEN NumMul(NumInt(item.cost), a.materialCostMultiplier)
     ELSE IF includes(cat, KwLabor) \/ includes(cat, KwWage)
     THEN NumMul(NumInt(item.cost), a.laborRateMultiplier)
     ELSE IF includes(cat, KwEquipment)
     THEN NumMul(NumInt(item.cost), a.equipmentCostMultiplier)
     ELSE IF includes(cat, KwContingency)
     THEN NumMul(NumInt(SumCost(others)), NumDiv(a.contingencyPercentage, NumInt(100)))
     ELSE NumInt(item.cost)

applyAssumptionsEarlier(b, a) ==
  LET adjustedBreakdown ==
        [i \in 1..Len(b.breakdown) |->
           [b.breakdown[i] EXCEPT !.cost = EarlierAdjustItem(b.breakdown[i], b.breakdown, a)]]
      newTotal == NumSumCost(adjustedBreakdown)
      costRatio == NumDiv(newTotal, NumInt(b.totalEstimatedCost))
  IN [b EXCEPT !.totalEstimatedCost = NumRound(newTotal),
               !.breakdown = adjustedBreakdown,
               !.cashflow =
                 [i \in 1..Len(b.cashflow) |->
                    [b.cashflow[i] EXCEPT
                       !.amount = NumRound(NumMul(NumInt(b.cashflow[i].amount), costRatio))]]]

----------------------------------------------------------------------------
(* Cashflow Normalizer *)

\* Math.ceil(a / b) for a >= 0 and b > 0.
Ceil(a, b) == (a + b - 1) \div b

Min(a, b) == IF a <= b THEN a ELSE b

\* phaseDistribution: the percentage, in hundredths, and the label of a phase.
phaseDistribution(phaseKey) ==
  CASE phaseKey = 1 -> [percentage |-> 15, phase |-> "Site preparation & permits"]
    [] phaseKey = 2 -> [percentage |-> 25, phase |-> "Foundation & structural work"]
    [] phaseKey = 3 -> [percentage |-> 30, phase |-> "Building envelope & utilities"]
    [] phaseKey = 4 -> [percentage |-> 20, phase |-> "Interior finishing"]
    [] OTHER -> [percentage |-> 10, phase |-> "Final inspections & handover"]

\* Math.min(5, Math.ceil((month / timelineMonths) * 5))
PhaseKey(month, months) == Min(5, Ceil(month * 5, months))

\* The percentage of a month as <<numerator, denominator>>.
MonthPercentage(month, months) ==
  IF months <= 3
  THEN (IF month = 1 THEN <<40, 100>> ELSE IF month = 2 THEN <<35, 100>> ELSE <<25, 100>>)
  ELSE IF months <= 6
  THEN <<phaseDistribution(PhaseKey(month, months)).percentage, 100 * Ceil(months, 5)>>
  ELSE (IF month <= 2 THEN <<20, 100>>
        ELSE IF month <= months - 2 THEN <<60, 100 * (months - 4)>>
        ELSE <<10, 100>>)

\* The phase label of a month.
MonthPhase(month, months) ==
  IF months <= 3
  THEN (IF month = 1 THEN "Setup & major work"
        ELSE IF month = 2 THEN "Completion work" ELSE "Final touches")
  ELSE IF months <= 6 THEN phaseDistribution(PhaseKey(month, months)).phase
  ELSE (IF month <= 2 THEN "Initial setup & foundation"
        ELSE IF month <= months - 2 THEN "Main construction work"
        ELSE "Finishing & handover")

\* newCashflow as the loop leaves it, before the last month is adjusted.
GeneratedCashflow(totalCost, months) ==
  [month \in 1..months |->
     LET percentage == MonthPercentage(month, months) IN
     [month |-> month,
      amount |-> RoundMul(totalCost, percentage[1], percentage[2]),
      phase |-> MonthPhase(month, months)]]

\* Variant of CorrectedCashflow that leaves the last month as generated.
UncorrectedCashflow(totalCost, months) == GeneratedCashflow(totalCost, months)

\* newCashflow with the difference to the total added to the last month.
CorrectedCashflow(totalCost, months) ==
  LET generated == GeneratedCashflow(totalCost, months)
      difference == totalCost - SumAmount(generated)
  IN IF difference # 0
     THEN [generated EXCEPT ![months].amount = @ + difference]
     ELSE generated

\* !result.cashflow: the parsed estimate has no cashflow property.
CashflowMissing(result) == "cashflow" \notin DOMAIN result

\* Variant of validateCashflow that regenerates the cashflow of every result.
validateCashflowAlways(result, months) ==
  [f \in DOMAIN result \cup {"cashflow"} |->
     IF f = "cashflow" THEN CorrectedCashflow(result.totalEstimatedCost, months)
     ELSE result[f]]

validateCashflow(result, months) ==
  IF CashflowMissing(result) \/ Len(result.cashflow) # months
  THEN [f \in DOMAIN result \cup {"cashflow"} |->
          IF f = "cashflow" THEN CorrectedCashflow(result.totalEstimatedCost, months)
          ELSE result[f]]
  ELSE result

----------------------------------------------------------------------------
(* Inputs *)

\* Longest breakdown and longest cashflow drawn, and the largest cost of the
\* one-item estimates.
MaxItems == 2
MaxMonths == 4
MaxCost == 30

Categories ==
  { <<"M","a","t","e","r","i","a","l","s">>,
    <<"L","a","b","o","r">>,
    <<"W","a","g","e","s">>,
    <<"M","a","n","p","o","w","e","r">>,
    <<"E","q","u","i","p","m","e","n","t">>,
    <<"P","o","w","e","r"," ","T","o","o","l","s">>,
    <<"P","e","r","m","i","t","s">>,
    <<"A","p","p","r","o","v","a","l","s">>,
    <<"C","o","n","t","i","n","g","e","n","c","y">>,
    <<"S","i","t","e"," ","W","o","r","k">>,
    <<"L","a","b","o","r"," ","&"," ","M","a","t","e","r","i","a","l","s">> }

\* One category of each class of the vocabulary, and one outside it.
ClassCategories ==
  { <<"M","a","t","e","r","i","a","l","s">>,
    <<"L","a","b","o","r">>,
    <<"E","q","u","i","p","m","e","n","t">>,
    <<"P","e","r","m","i","t","s">>,
    <<"C","o","n","t","i","n","g","e","n","c","y">>,
    <<"S","i","t","e"," ","W","o","r","k">> }

Costs == {5, 1000}
Amounts == {5, 10}

\* "Standard or premium"
ItemDescription ==
  <<"S","t","a","n","d","a","r","d"," ","o","r"," ","p","r","e","m","i","u","m">>

\* "Market data"
BaseReason == <<"M","a","r","k","e","t"," ","d","a","t","a">>

Items == [category : ClassCategories, cost : Costs, description : {ItemDescription}]

SeqsUpTo(S, n) == UNION {[1..k -> S] : k \in 0..n}

\* A cashflow with the given amounts: months 1..N in order.
CashflowOf(amounts) ==
  [i \in 1..Len(amounts) |->
     [month |-> i, amount |-> amounts[i], phase |-> "Phase"]]

Estimate(total, breakdown, cashflow, summary) ==
  [currencySymbol |-> "$",
   totalEstimatedCost |-> total,
   breakdown |-> breakdown,
   cashflow |-> cashflow,
   risks |-> <<>>,
   confidenceScore |-> 85,
   confidenceReason |-> BaseReason,
   efficiencyTips |-> <<>>,
   summary |-> summary]

\* Estimates with any breakdown, its total, and the whole total in month 1.
BreakdownBases ==
  { Estimate(SumCost(b), b, CashflowOf(<<SumCost(b)>>),
             <<"s","t","a","n","d","a","r","d"," ","p","l","a","n">>) :
      b \in SeqsUpTo(Items, MaxItems) }

\* Estimates with any cashflow, its total, and the whole total in one item.
CashflowBases ==
  { Estimate(SumAmount(CashflowOf(a)),
             <<[category |-> c, cost |-> SumAmount(CashflowOf(a)),
                description |-> ItemDescription]>>,
             CashflowOf(a),
             <<"E","c","o","n","o","m","y"," ","b","u","i","l","d">>) :
      a \in SeqsUpTo(Amounts, MaxMonths), c \in Categories }

\* Estimates of one item, of every category and every cost up to MaxCost.
ItemBases ==
  { Estimate(k, <<[category |-> c, cost |-> k, description |-> ItemDescription]>>,
             CashflowOf(<<k>>),
             <<"E","c","o","n","o","m","y"," ","b","u","i","l","d">>) :
      k \in 0..MaxCost, c \in Categories }

\* Estimates whose total is not the sum of the breakdown: the estimator is
\* not trusted to return consistent numbers.
DriftBases ==
  { Estimate(t, <<[category |-> c, cost |-> 1000, description |-> ItemDescription]>>,
             CashflowOf(<<5, 5>>),
             <<"s","t","a","n","d","a","r","d"," ","p","l","a","n">>) :
      t \in {0, 990}, c \in ClassCategories }

FixtureItem(category, cost) ==
  [category |-> category, cost |-> cost, description |-> ItemDescription]

\* The end-to-end fixture: total 1000000 over five items and six months.
Fixture ==
  Estimate(1000000,
           << FixtureItem(<<"M","a","t","e","r","i","a","l","s">>, 450000),
              FixtureItem(<<"L","a","b","o","r">>, 300000),
              FixtureItem(<<"E","q","u","i","p","m","e","n","t">>, 100000),
              FixtureItem(<<"P","e","r","m","i","t","s">>, 50000),
              FixtureItem(<<"C","o","n","t","i","n","g","e","n","c","y">>, 100000) >>,
           CashflowOf(<<150000, 250000, 150000, 150000, 200000, 100000>>),
           <<"s","t","a","n","d","a","r","d"," ","p","l","a","n">>)

DeriveBases ==
  BreakdownBases \cup CashflowBases \cup ItemBases \cup DriftBases \cup {Fixture}

\* The panel's initial assumptions: 1.0, 1.0, 1.0 and 10 percent.
\* The form's largest timeline, and the largest of the small totals drawn.
MaxTimelineMonths == 60
MaxTotal == 40

NormalizeTotals == (0..MaxTotal) \cup {1000, 745000, 1000000}

\* An estimate as parsed from a reply that has no cashflow property.
WithoutCashflow(e) == [f \in DOMAIN e \ {"cashflow"} |-> e[f]]

\* A cashflow of n months carrying the whole total in month 1.
FrontCashflow(total, n) ==
  CashflowOf([i \in 1..n |-> IF i = 1 THEN total ELSE 0])

\* Estimates of a total with a cashflow of n months.
NormalizeBase(total, n) ==
  Estimate(total, <<[category |-> <<"S","i","t","e"," ","W","o","r","k">>,
                     cost |-> total, description |-> ItemDescription]>>,
           FrontCashflow(total, n), BaseReason)

DefaultAssumptions ==
  [materialCostMultiplier |-> NumInt(1), laborRateMultiplier |-> NumInt(1),
   equipmentCostMultiplier |-> NumInt(1), contingencyPercentage |-> NumInt(10)]

\* Slider positions drawn: 0.5, 1.0 and 2.0; 0, 10 and 25 percent.
MultiplierValues == {Rat(5, 10), NumInt(1), NumInt(2)}
ContingencyValues == {NumInt(0), NumInt(10), NumInt(25)}

AssumptionValues ==
  [materialCostMultiplier : MultiplierValues, laborRateMultiplier : MultiplierValues,
   equipmentCostMultiplier : MultiplierValues, contingencyPercentage : ContingencyValues]

\* The estimator's fallback estimate after normalisation: total 0, no
\* breakdown, and a cashflow of zero amounts.
ZeroBases ==
  { Estimate(0, <<>>, CashflowOf(a), BaseReason) : a \in SeqsUpTo({0}, MaxMonths) }

\* Estimates as parsed from a reply whose items are not as the interface
\* says: an item without category, alone or after a well-formed item, and
\* an item whose category is the empty string.
MalformedBases ==
  LET noCategory == [cost |-> 1000, description |-> ItemDescription]
      emptyCategory == [category |-> <<>>, cost |-> 1000, description |-> ItemDescription]
      materials == FixtureItem(<<"M","a","t","e","r","i","a","l","s">>, 1000)
  IN { Estimate(SumCost(b), b, CashflowOf(<<SumCost(b)>>), BaseReason) :
         b \in {<<noCategory>>, <<materials, noCategory>>, <<emptyCategory>>} }

AdjustBases ==
  BreakdownBases \cup CashflowBases \cup DriftBases \cup ZeroBases \cup MalformedBases

----------------------------------------------------------------------------
(* Scenario comparison *)

\* The estimate generateConstructionEstimate falls back on: total 0, nothing
\* in the lists, confidenceScore 0.
FallbackEstimate(reason, summary) ==
  [Estimate(0, <<>>, <<>>, summary) EXCEPT !.confidenceScore = 0,
                                           !.confidenceReason = reason]

\* 'Unable to generate estimate' / 'Estimation failed - please try again'
ParseFallback ==
  FallbackEstimate(
    <<"U","n","a","b","l","e"," ","t","o"," ","g","e","n","e","r","a","t","e"," ",
      "e","s","t","i","m","a","t","e">>,
    <<"E","s","t","i","m","a","t","i","o","n"," ","f","a","i","l","e","d"," ","-"," ",
      "p","l","e","a","s","e"," ","t","r","y"," ","a","g","a","i","n">>)

\* 'API call failed, using fallback estimate.' / 'Estimation failed due to
\* an API error. Please check the inputs and try again.'
CatchFallback ==
  FallbackEstimate(
    <<"A","P","I"," ","c","a","l","l"," ","f","a","i","l","e","d">>,
    <<"E","s","t","i","m","a","t","i","o","n"," ","f","a","i","l","e","d"," ",
      "d","u","e"," ","t","o"," ","a","n"," ","A","P","I"," ","e","r","r","o","r">>)

\* generateConstructionEstimate on the collaborator's reply: a rejected call
\* is caught and answered with the fallback estimate, an unparsable content
\* is replaced by the parser's fallback, and whatever was parsed is
\* validated against the timeline.
generateConstructionEstimate(reply, months) ==
  CASE reply.kind = "rejected" -> CatchFallback
    [] reply.kind = "unparsable" -> validateCashflow(ParseFallback, months)
    [] OTHER -> validateCashflow(reply.result, months)

\* createScenario of generateHardcodedScenarios, the cost multiplier in tenths.
createScenario(quality, costMultiplier, confidence) ==
  [totalEstimatedCost |-> (1000000 * costMultiplier) \div 10,
   breakdown |-> <<>>,
   cashflow |-> <<>>,
   risks |-> <<>>,
   efficiencyTips |-> <<>>,
   confidenceScore |-> confidence,
   confidenceReason |->
     <<"H","a","r","d","c","o","d","e","d"," ","f","a","l","l","b","a","c","k"," ",
       "d","a","t","a">>,
   currencySymbol |-> "$",
   summary |->
     <<"T","h","i","s"," ","i","s"," ","a"," ","h","a","r","d","c","o","d","e","d"," ">>
       \o quality \o <<" ","s","c","e","n","a","r","i","o",".">>]

generateHardcodedScenarios ==
  [economy |-> createScenario(ECONOMY, 8, 70),
   standard |-> createScenario(STANDARD, 10, 85),
   premium |-> createScenario(PREMIUM, 15, 80)]

\* deriveScenarioFromBase raises a TypeError on an estimate without
\* breakdown, cashflow or summary, or with an item without category or
\* description.
deriveThrows(b) ==
  \/ {"breakdown", "cashflow", "summary"} \ DOMAIN b # {}
  \/ \E i \in 1..Len(b.breakdown) :
       {"category", "description"} \ DOMAIN b.breakdown[i] # {}

\* No baseEstimate was passed.
Undefined == [undefined |-> TRUE]

\* Variant of AnchoredComparison that derives the third scenario from the
\* derived second one.
AnchoredComparisonChained(quality, anchor) ==
  IF quality = ECONOMY
  THEN LET standard == deriveScenarioFromBase(anchor, ECONOMY, STANDARD) IN
       [economy |-> anchor, standard |-> standard,
        premium |-> deriveScenarioFromBase(standard, STANDARD, PREMIUM)]
  ELSE IF quality = PREMIUM
  THEN LET standard == deriveScenarioFromBase(anchor, PREMIUM, STANDARD) IN
       [premium |-> anchor, standard |-> standard,
        economy |-> deriveScenarioFromBase(standard, STANDARD, ECONOMY)]
  ELSE LET economy == deriveScenarioFromBase(anchor, STANDARD, ECONOMY) IN
       [standard |-> anchor, economy |-> economy,
        premium |-> deriveScenarioFromBase(economy, ECONOMY, PREMIUM)]

\* The three scenarios with the base estimate as the anchor of its quality.
AnchoredComparison(quality, anchor) ==
  IF quality = ECONOMY
  THEN [economy |-> anchor,
        standard |-> deriveScenarioFromBase(anchor, ECONOMY, STANDARD),
        premium |-> deriveScenarioFromBase(anchor, ECONOMY, PREMIUM)]
  ELSE IF quality = PREMIUM
  THEN [premium |-> anchor,
        standard |-> deriveScenarioFromBase(anchor, PREMIUM, STANDARD),
        economy |-> deriveScenarioFromBase(anchor, PREMIUM, ECONOMY)]
  ELSE [standard |-> anchor,
        economy |-> deriveScenarioFromBase(anchor, STANDARD, ECONOMY),
        premium |-> deriveScenarioFromBase(anchor, STANDARD, PREMIUM)]

\* generateScenarioComparison: anchored on the base estimate when there is
\* one and on a generated Standard estimate otherwise; an error raised on
\* the way is caught and answered with the hardcoded scenarios.
generateScenarioComparison(quality, months, baseEstimate, reply) ==
  IF baseEstimate # Undefined
  THEN (IF deriveThrows(baseEstimate) THEN generateHardcodedScenarios
        ELSE AnchoredComparison(quality, baseEstimate))
  ELSE LET standard == generateConstructionEstimate(reply, months) IN
       IF deriveThrows(standard) THEN generateHardcodedScenarios
       ELSE [standard |-> standard,
             economy |-> deriveScenarioFromBase(standard, STANDARD, ECONOMY),
             premium |-> deriveScenarioFromBase(standard, STANDARD, PREMIUM)]

\* Array.prototype.sort((a, b) => b.cost - a.cost): a stable sort by falling
\* cost, in place.
RECURSIVE InsertByCost(_, _)
InsertByCost(sorted, item) ==
  IF sorted = <<>> THEN <<item>>
  ELSE IF Head(sorted).cost >= item.cost
       THEN <<Head(sorted)>> \o InsertByCost(Tail(sorted), item)
       ELSE <<item>> \o sorted

RECURSIVE SortByCost(_)
SortByCost(breakdown) ==
  IF breakdown = <<>> THEN <<>>
  ELSE InsertByCost(SortByCost(SubSeq(breakdown, 1, Len(breakdown) - 1)),
                    breakdown[Len(breakdown)])

\* A render of ScenarioComparisonTable: the breakdown of each of the three
\* scenarios is sorted in place before its first three items are shown.
RenderedComparison(comparison) ==
  [k \in DOMAIN comparison |->
     [comparison[k] EXCEPT !.breakdown = SortByCost(@)]]

\* The comparison holds the base estimate itself as one of its entries.
AnchorShared(quality, baseEstimate) ==
  baseEstimate # Undefined /\ ~deriveThrows(baseEstimate)

\* Anchors passed to generateScenarioComparison.
CompareAnchors == BreakdownBases \cup DriftBases \cup {Fixture}

\* What the collaborator's call can come to: it is rejected, its content
\* cannot be parsed, or its content parses to an estimate, to an estimate
\* of another length or without cashflow, or to an object without breakdown.
Replies ==
  {[kind |-> "rejected", result |-> Undefined],
   [kind |-> "unparsable", result |-> Undefined]}
    \cup {[kind |-> "parsed", result |-> r] :
            r \in DriftBases
                    \cup {Fixture, WithoutCashflow(Fixture),
                          NormalizeBase(1000, 0),
                          [totalEstimatedCost |-> 1000, summary |-> BaseReason]}}

\* Timelines asked for in a comparison.
CompareTimelines == {2, 6, 7}

----------------------------------------------------------------------------
(* Request queue, rate limit and retry *)

MAX_RETRIES == 2
BASE_DELAY == 20000
MIN_REQUEST_INTERVAL == 30000

\* The pause of the process loop after a task, in milliseconds; time is
\* advanced in steps of this length, which divides every other delay.
TaskGap == 5000

\* Concurrent callers of retryWithBackoff.
MaxCallers == 3
Callers == 1..MaxCallers

\* Rejections of the remote call: HTTP status 429, the code
\* 'rate_limit_exceeded', a message that mentions the rate limit, and a
\* server error.
ErrorStatus429 == [status |-> 429, code |-> "", message |-> <<>>]
ErrorCode ==
  [status |-> 400, code |-> "rate_limit_exceeded", message |-> <<>>]
ErrorMessage ==
  [status |-> 400, code |-> "",
   message |-> <<"A","P","I"," ","r","a","t","e"," ","l","i","m","i","t"," ","h","i","t">>]
ErrorServer ==
  [status |-> 500, code |-> "",
   message |-> <<"S","e","r","v","e","r"," ","e","r","r","o","r">>]
Errors == {ErrorStatus429, ErrorCode, ErrorMessage, ErrorServer}

\* The value a remote call resolves with.
Response == [status |-> 200, code |-> "", message |-> <<>>]

\* No call has settled yet.
Pending == [status |-> 0, code |-> "", message |-> <<>>]

\* What fn settles with in the machine.
Outcomes == {Response, ErrorMessage, ErrorServer}

KwRateLimit == <<"r","a","t","e"," ","l","i","m","i","t">>

\* error?.status === 429 || error?.code === 'rate_limit_exceeded' ||
\* error?.message?.includes('rate limit')
isRateLimit(e) ==
  e.status = 429 \/ e.code = "rate_limit_exceeded" \/ includes(e.message, KwRateLimit)

\* Variant of shouldRetry that retries after every error.
shouldRetryAnyError(e, attempt, maxRetries) == attempt < maxRetries

\* The catch of retryWithBackoff waits and continues.
shouldRetry(e, attempt, maxRetries) == isRateLimit(e) /\ attempt < maxRetries

RECURSIVE Pow2(_)
Pow2(k) == IF k = 0 THEN 1 ELSE 2 * Pow2(k - 1)

\* baseDelay * Math.pow(2, attempt)
backoffDelay(attempt) == BASE_DELAY * Pow2(attempt)

\* Variant of waitTime that waits half of what is missing.
waitTimeHalved(timeSinceLastRequest) ==
  IF timeSinceLastRequest < MIN_REQUEST_INTERVAL
  THEN ((MIN_REQUEST_INTERVAL - timeSinceLastRequest) \div (2 * TaskGap)) * TaskGap
  ELSE 0

\* waitTime of queueRequest, 0 when the task does not wait.
waitTime(timeSinceLastRequest) ==
  IF timeSinceLastRequest < MIN_REQUEST_INTERVAL
  THEN MIN_REQUEST_INTERVAL - timeSinceLastRequest
  ELSE 0

\* Variant of processReturns that ignores the processing flag.
processReturnsWhenEmpty(isProcessing, q) == q = <<>>

\* if (this.processing || this.queue.length === 0) return;
processReturns(isProcessing, q) == isProcessing \/ q = <<>>

\* Variant of shift that takes the task added last.
pop(q) == [task |-> q[Len(q)], rest |-> SubSeq(q, 1, Len(q) - 1)]

\* this.queue.shift(): the task at the front and the rest of the queue.
shift(q) == [task |-> Head(q), rest |-> Tail(q)]

\* A sequence without its i-th element.
Without(seq, i) == SubSeq(seq, 1, i - 1) \o SubSeq(seq, i + 1, Len(seq))

\* A delay after a step of time.
Elapse(remaining) == IF remaining > TaskGap THEN remaining - TaskGap ELSE 0

\* A time since an event after a step of time; beyond MIN_REQUEST_INTERVAL
\* the code no longer tells times apart.
Age(since) ==
  IF since + TaskGap < MIN_REQUEST_INTERVAL THEN since + TaskGap ELSE MIN_REQUEST_INTERVAL

\* The remote calls that may fail in a run.
MaxErrors == 3

\* The remote calls that failed so far.
RECURSIVE ErrorsUpTo(_)
ErrorsUpTo(c) ==
  IF c = 0 THEN 0
  ELSE ErrorsUpTo(c - 1) + retry[c].attempt
         + (IF retry[c].pc \in {"backoff", "thrown"} THEN 1 ELSE 0)
ErrorsSoFar == ErrorsUpTo(MaxCallers)

\* retryWithBackoff of a caller: where it is, its attempt, the rest of its
\* backoff and the delay it began with, and what fn settled with last.
IdleRetry ==
  [pc |-> "idle", attempt |-> 0, remaining |-> 0, delay |-> 0, last |-> Pending]

\* The queue is not part of the machine.
QueueUnused ==
  /\ queue = <<>>
  /\ processing = FALSE
  /\ loops = <<>>
  /\ sinceLastRequest = MIN_REQUEST_INTERVAL
  /\ retry = [c \in Callers |-> IdleRetry]
  /\ added = <<>>
  /\ started = <<>>
  /\ calls = [c \in Callers |-> 0]
  /\ sinceStart = MIN_REQUEST_INTERVAL
  /\ lastSpacing = MIN_REQUEST_INTERVAL

----------------------------------------------------------------------------
(* Results dashboard and assumptions panel *)

\* An estimate with its numbers written as fractions, the form in which
\* applyAssumptions writes them.
NumEstimate(e) ==
  LET breakdown == e.breakdown
      cashflow == e.cashflow
  IN [e EXCEPT
        !.totalEstimatedCost = NumInt(@),
        !.breakdown = [i \in 1..Len(breakdown) |->
                         [breakdown[i] EXCEPT !.cost = NumInt(@)]],
        !.cashflow = [i \in 1..Len(cashflow) |->
                        [cashflow[i] EXCEPT !.amount = NumInt(@)]]]

\* An estimate with its numbers rounded to whole amounts.
IntEstimate(e) ==
  LET breakdown == e.breakdown
      cashflow == e.cashflow
  IN [e EXCEPT
        !.totalEstimatedCost = NumRound(@).n,
        !.breakdown = [i \in 1..Len(breakdown) |->
                         [breakdown[i] EXCEPT !.cost = NumRound(@).n]],
        !.cashflow = [i \in 1..Len(cashflow) |->
                        [cashflow[i] EXCEPT !.amount = NumRound(@).n]]]

\* Variant of baseEstimationProp that hands the panel the estimate on
\* display.
baseEstimationCurrent(result, currentEstimation) == IntEstimate(currentEstimation)

\* baseEstimation={result}: the panel's base is the dashboard's result prop.
baseEstimationProp(result, currentEstimation) == result

\* useState of ResultsDashboard, and the report a step passes to generatePDF.
InitialDashboard(result) ==
  [showScenarioComparison |-> FALSE,
   showEditableAssumptions |-> FALSE,
   scenarioComparison |-> Undefined,
   currentEstimation |-> NumEstimate(result),
   currentAssumptions |-> DefaultAssumptions,
   isLoadingScenarios |-> FALSE,
   report |-> Undefined]

\* The panel is not rendered.
Unmounted ==
  [mounted |-> FALSE, assumptions |-> DefaultAssumptions,
   adjustedEstimation |-> Undefined, reported |-> Undefined]

\* Slider positions drawn: 0.5, 1.0 and 2.0; 5, 10 and 25 percent.
PanelValues(key) ==
  IF key = "contingencyPercentage" THEN {NumInt(5), NumInt(10), NumInt(25)}
  ELSE MultiplierValues

\* The result props drawn.
DashboardResults == {Fixture, NormalizeBase(1000, 2)}

\* What the collaborator's call for the Standard scenario comes to: it is
\* rejected, or its content parses to an estimate or to an object without
\* breakdown.
DashboardReplies ==
  {r \in Replies :
     \/ r.kind = "rejected"
     \/ r.kind = "parsed" /\ "breakdown" \notin DOMAIN r.result
     \/ r.kind = "parsed" /\ r.result = Fixture}

\* A render of the dashboard: the comparison table, when shown, sorts the
\* breakdown of each scenario in place.
Rendered(d) ==
  IF d.showScenarioComparison /\ d.scenarioComparison # Undefined
  THEN [d EXCEPT !.scenarioComparison = RenderedComparison(@)]
  ELSE d

\* The dashboard is not part of the machine.
DashboardUnused ==
  /\ dashboard = Undefined
  /\ panel = Unmounted

----------------------------------------------------------------------------
(* App *)

\* Requests of handleEstimate that may be in flight together.
MaxInFlight == 2

\* useState of currentInputs.
DefaultInputs ==
  [type |-> "Residential", quality |-> STANDARD, location |-> "",
   sizeSqFt |-> 1000, budgetLimit |-> 3500000, timelineMonths |-> 6, manpower |-> 5]

\* Inputs the form submits.
SubmittedInputs ==
  {[DefaultInputs EXCEPT !.location = "Pune", !.timelineMonths = m] :
     m \in CompareTimelines}

\* useState of App, the requests in flight, and the inputs of the request
\* that produced estimationResult.
InitialApp ==
  [loading |-> FALSE, estimationResult |-> Undefined, error |-> "null",
   currentInputs |-> DefaultInputs, inFlight |-> <<>>, resultInputs |-> Undefined]

\* App is not part of the machine.
AppUnused == app = InitialApp

----------------------------------------------------------------------------
(* Estimator form *)

numericFields == {"sizeSqFt", "floors", "budgetLimit", "timelineMonths", "manpower"}

DigitValue(c) ==
  CASE c = "0" -> 0 [] c = "1" -> 1 [] c = "2" -> 2 [] c = "3" -> 3 [] c = "4" -> 4
    [] c = "5" -> 5 [] c = "6" -> 6 [] c = "7" -> 7 [] c = "8" -> 8 [] c = "9" -> 9

RECURSIVE DigitsValue(_)
DigitsValue(s) ==
  IF s = <<>> THEN 0 ELSE 10 * DigitsValue(SubSeq(s, 1, Len(s) - 1)) + DigitValue(s[Len(s)])

\* Number(value) of a decimal integer text, with or without a sign.
Number(value) ==
  IF value = <<>> THEN 0
  ELSE IF Head(value) = "-" THEN 0 - DigitsValue(Tail(value))
  ELSE DigitsValue(value)

\* The form's inputs as useState creates them.
InitialInputs ==
  [type |-> "Residential", quality |-> STANDARD, location |-> "",
   sizeSqFt |-> 0, floors |-> 1, budgetLimit |-> 0, timelineMonths |-> 0, manpower |-> 0]

\* setInputs of handleChange: a numeric field takes 0 for the empty text and
\* Number(value) otherwise, any other field takes the text.
handleChange(prev, name, value) ==
  [prev EXCEPT ![name] = IF name \in numericFields
                         THEN (IF value = <<>> THEN 0 ELSE Number(value))
                         ELSE value]

\* Object.values(inputs).some(value => value === '' || value === 0): strict
\* equality, so only a number equals 0 and only a string equals ''.
SomeEmpty(i) ==
  \/ \E f \in numericFields : i[f] = 0
  \/ i.type = ""
  \/ i.quality = <<>>
  \/ i.location = ""

\* The constraints the inputs declare (required, min, max), which the
\* browser checks before it delivers the submit event of a click.
ConstraintsHold(i) ==
  /\ i.location # ""
  /\ i.sizeSqFt >= 1
  /\ i.floors >= 1 /\ i.floors <= 100
  /\ i.budgetLimit >= 1
  /\ i.timelineMonths >= 1 /\ i.timelineMonths <= 60
  /\ i.manpower >= 1 /\ i.manpower <= 1000

FillError == "Please fill out all fields."

\* Texts typed into a numeric input, and texts typed into location.
NumericTexts == {<<>>, <<"3">>, <<"-", "3">>}
LocationTexts == {"", "Pune"}

\* The form is not part of the machine.
FormUnused ==
  /\ inputs = InitialInputs
  /\ error = "null"
  /\ estimateCalls = <<>>

----------------------------------------------------------------------------
(* Scenario derivation as a state machine: a caller derives a scenario    *)
(* from the base estimate, and may derive once more from the result.      *)

InitDerive ==
  /\ FormUnused
  /\ QueueUnused
  /\ DashboardUnused
  /\ AppUnused
  /\ base \in DeriveBases
  /\ baseQuality \in QualityLevel
  /\ out = base
  /\ outQuality = baseQuality
  /\ op = "init"
  /\ path = <<>>
  /\ assumptions = DefaultAssumptions
  /\ timelineMonths = Len(base.cashflow)

\* out = deriveScenarioFromBase(base, baseQuality, targetQ)
DeriveScenario(targetQ) ==
  /\ op = "init"
  /\ out' = deriveScenarioFromBase(base, baseQuality, targetQ)
  /\ outQuality' = targetQ
  /\ op' = "derive"
  /\ path' = <<targetQ>>
  /\ UNCHANGED <<base, baseQuality, assumptions, timelineMonths>>
  /\ UNCHANGED componentVars

\* out = deriveScenarioFromBase(out, outQuality, targetQ), on a derived scenario.
DeriveFromDerived(targetQ) ==
  /\ op = "derive"
  /\ Len(path) = 1
  /\ out' = deriveScenarioFromBase(out, outQuality, targetQ)
  /\ outQuality' = targetQ
  /\ op' = "derive"
  /\ path' = Append(path, targetQ)
  /\ UNCHANGED <<base, baseQuality, assumptions, timelineMonths>>
  /\ UNCHANGED componentVars

NextDerive ==
  \E targetQ \in QualityLevel : DeriveScenario(targetQ) \/ DeriveFromDerived(targetQ)

SpecDerive == InitDerive /\ [][NextDerive]_vars

----------------------------------------------------------------------------
(* Assumption adjustment as a state machine: applyAssumptions is applied  *)
(* to a base estimate under the assumptions drawn.                        *)

InitAdjust ==
  /\ FormUnused
  /\ QueueUnused
  /\ DashboardUnused
  /\ AppUnused
  /\ base \in AdjustBases
  /\ baseQuality = STANDARD
  /\ out = base
  /\ outQuality = baseQuality
  /\ op = "init"
  /\ path = <<>>
  /\ assumptions \in AssumptionValues
  /\ timelineMonths = Len(base.cashflow)

\* applyAssumptions returns its result, or raises and leaves none.
ApplyAssumptions ==
  /\ op = "init"
  /\ IF applyAssumptionsThrows(base)
     THEN out' = out /\ op' = "throw"
     ELSE out' = applyAssumptions(base, assumptions) /\ op' = "apply"
  /\ UNCHANGED <<base, baseQuality, outQuality, path, assumptions, timelineMonths>>
  /\ UNCHANGED componentVars

ApplyAssumptionsEarlier ==
  /\ op = "init"
  /\ IF applyAssumptionsThrows(base)
     THEN out' = out /\ op' = "throwEarlier"
     ELSE out' = applyAssumptionsEarlier(base, assumptions) /\ op' = "applyEarlier"
  /\ UNCHANGED <<base, baseQuality, outQuality, path, assumptions, timelineMonths>>
  /\ UNCHANGED componentVars

NextAdjust == ApplyAssumptions \/ ApplyAssumptionsEarlier

SpecAdjust == InitAdjust /\ [][NextAdjust]_vars

----------------------------------------------------------------------------
(* Cashflow normalisation as a state machine: the estimator's parsed      *)
(* reply is validated against the timeline the user asked for.            *)

\* The reply's cashflow is missing, empty, one month short or long, or of
\* the timeline's length.
InitNormalize ==
  /\ FormUnused
  /\ QueueUnused
  /\ DashboardUnused
  /\ AppUnused
  /\ timelineMonths \in 1..MaxTimelineMonths
  /\ \E total \in NormalizeTotals :
       \/ base = WithoutCashflow(NormalizeBase(total, 0))
       \/ \E n \in {0, timelineMonths - 1, timelineMonths, timelineMonths + 1} :
            base = NormalizeBase(total, n)
  /\ baseQuality = STANDARD
  /\ out = base
  /\ outQuality = baseQuality
  /\ op = "init"
  /\ path = <<>>
  /\ assumptions = DefaultAssumptions

ValidateCashflow ==
  /\ op = "init"
  /\ out' = validateCashflow(base, timelineMonths)
  /\ op' = "validate"
  /\ UNCHANGED <<base, baseQuality, outQuality, path, assumptions, timelineMonths>>
  /\ UNCHANGED componentVars

NextNormalize == ValidateCashflow

SpecNormalize == InitNormalize /\ [][NextNormalize]_vars

----------------------------------------------------------------------------
(* Scenario comparison as a state machine: generateScenarioComparison is  *)
(* called with or without a base estimate; path holds the kind of the     *)
(* collaborator's reply.                                                  *)

InitCompare ==
  /\ FormUnused
  /\ QueueUnused
  /\ DashboardUnused
  /\ AppUnused
  /\ base \in CompareAnchors \cup {Undefined}
  /\ baseQuality \in QualityLevel
  /\ timelineMonths \in CompareTimelines
  /\ out = base
  /\ outQuality = baseQuality
  /\ op = "init"
  /\ path = <<>>
  /\ assumptions = DefaultAssumptions

\* generateScenarioComparison(projectInputs, baseEstimate)
CompareWithAnchor ==
  /\ op = "init"
  /\ base # Undefined
  /\ out' = generateScenarioComparison(baseQuality, timelineMonths, base,
                                       [kind |-> "none", result |-> Undefined])
  /\ op' = "compare"
  /\ UNCHANGED <<base, baseQuality, outQuality, path, assumptions, timelineMonths>>
  /\ UNCHANGED componentVars

\* generateScenarioComparison(projectInputs), the collaborator replying.
CompareWithoutAnchor(reply) ==
  /\ op = "init"
  /\ base = Undefined
  /\ out' = generateScenarioComparison(baseQuality, timelineMonths, base, reply)
  /\ op' = "compare"
  /\ path' = <<reply.kind>>
  /\ UNCHANGED <<base, baseQuality, outQuality, assumptions, timelineMonths>>
  /\ UNCHANGED componentVars

\* ScenarioComparisonTable renders the comparison: the sort is in place,
\* so it also reorders the base estimate when that is one of the entries.
RenderComparison ==
  /\ op \in {"compare", "render"}
  /\ out' = RenderedComparison(out)
  /\ base' = IF AnchorShared(baseQuality, base)
             THEN (IF baseQuality = ECONOMY THEN out'.economy
                   ELSE IF baseQuality = PREMIUM THEN out'.premium
                   ELSE out'.standard)
             ELSE base
  /\ op' = "render"
  /\ UNCHANGED <<baseQuality, outQuality, path, assumptions, timelineMonths>>
  /\ UNCHANGED componentVars

NextCompare ==
  \/ CompareWithAnchor
  \/ \E reply \in Replies : CompareWithoutAnchor(reply)
  \/ RenderComparison

SpecCompare == InitCompare /\ [][NextCompare]_vars

----------------------------------------------------------------------------
(* The estimator as a state machine: generateConstructionEstimate is      *)
(* called for a timeline and the collaborator replies.                    *)

InitEstimate ==
  /\ FormUnused
  /\ QueueUnused
  /\ DashboardUnused
  /\ AppUnused
  /\ timelineMonths \in 1..MaxTimelineMonths
  /\ base = Undefined
  /\ baseQuality = STANDARD
  /\ out = base
  /\ outQuality = baseQuality
  /\ op = "init"
  /\ path = <<>>
  /\ assumptions = DefaultAssumptions

\* generateConstructionEstimate(inputs) resolves with its result.
GenerateEstimate(reply) ==
  /\ op = "init"
  /\ out' = generateConstructionEstimate(reply, timelineMonths)
  /\ op' = "estimate"
  /\ path' = <<reply.kind>>
  /\ UNCHANGED <<base, baseQuality, outQuality, assumptions, timelineMonths>>
  /\ UNCHANGED componentVars

NextEstimate == \E reply \in Replies : GenerateEstimate(reply)

SpecEstimate == InitEstimate /\ [][NextEstimate]_vars

----------------------------------------------------------------------------
(* The request queue as a state machine: callers run retryWithBackoff,    *)
(* whose attempts pass through queueRequest and TaskQueue; time advances  *)
(* in steps, timers fire once they are due, and the remote call settles   *)
(* with a response or an error.                                           *)

InitQueue ==
  /\ FormUnused
  /\ QueueUnused
  /\ DashboardUnused
  /\ AppUnused
  /\ base = Undefined
  /\ baseQuality = STANDARD
  /\ out = base
  /\ outQuality = baseQuality
  /\ op = "init"
  /\ path = <<>>
  /\ assumptions = DefaultAssumptions
  /\ timelineMonths = 0

\* The loop takes the next task of q and runs it up to its first await:
\* the task waits for the rest of the interval, or sets lastRequestTime
\* and invokes fn.
BeginTask(q, otherLoops) ==
  LET next == shift(q)
      wait == waitTime(sinceLastRequest)
  IN /\ queue' = next.rest
     /\ started' = Append(started, next.task)
     /\ IF wait > 0
        THEN /\ loops' = Append(otherLoops,
                                [stage |-> "wait", task |-> next.task, remaining |-> wait])
             /\ calls' = calls
             /\ UNCHANGED <<sinceLastRequest, sinceStart, lastSpacing>>
        ELSE /\ loops' = Append(otherLoops,
                                [stage |-> "call", task |-> next.task, remaining |-> 0])
             /\ calls' = [calls EXCEPT ![next.task.caller] = @ + 1]
             /\ sinceLastRequest' = 0
             /\ lastSpacing' = sinceStart
             /\ sinceStart' = 0

\* taskQueue.add(task): the task is pushed and process() is called, which
\* returns at once or becomes the loop and begins the task.
Add(task) ==
  LET pushed == Append(queue, task) IN
  /\ added' = Append(added, task)
  /\ IF processReturns(processing, pushed)
     THEN /\ queue' = pushed
          /\ UNCHANGED <<processing, loops, started, calls, sinceLastRequest,
                         sinceStart, lastSpacing>>
     ELSE /\ processing' = TRUE
          /\ BeginTask(pushed, loops)

\* A caller calls retryWithBackoff(fn): attempt 0 goes to queueRequest.
Call(c) ==
  /\ retry[c].pc = "idle"
  /\ retry' = [retry EXCEPT ![c].pc = "queued"]
  /\ Add([caller |-> c, attempt |-> 0])
  /\ op' = "call"

\* The wait of queueRequest is over: lastRequestTime is set and fn invoked.
WaitDone(i) ==
  /\ loops[i].stage = "wait"
  /\ loops[i].remaining = 0
  /\ loops' = [loops EXCEPT ![i].stage = "call"]
  /\ calls' = [calls EXCEPT ![loops[i].task.caller] = @ + 1]
  /\ sinceLastRequest' = 0
  /\ lastSpacing' = sinceStart
  /\ sinceStart' = 0
  /\ op' = "invoke"
  /\ UNCHANGED <<queue, processing, retry, added, started>>

\* fn settles: the task's promise settles with it, the caller's
\* retryWithBackoff returns, waits before a further attempt or throws,
\* and the loop goes on to its pause.
FnSettles(i, outcome) ==
  /\ loops[i].stage = "call"
  /\ outcome # Response => ErrorsSoFar < MaxErrors
  /\ LET c == loops[i].task.caller
         attempt == retry[c].attempt
         again == outcome # Response /\ shouldRetry(outcome, attempt, MAX_RETRIES)
         delay == IF again THEN backoffDelay(attempt) ELSE 0
     IN retry' = [retry EXCEPT
                    ![c].last = outcome,
                    ![c].pc = IF outcome = Response THEN "returned"
                              ELSE IF again THEN "backoff" ELSE "thrown",
                    ![c].remaining = delay,
                    ![c].delay = delay]
  /\ loops' = [loops EXCEPT ![i].stage = "gap", ![i].remaining = TaskGap]
  /\ op' = "settle"
  /\ UNCHANGED <<queue, processing, sinceLastRequest, added, started, calls,
                 sinceStart, lastSpacing>>

\* The pause after a task is over: the loop takes the next task, or ends
\* and clears processing when the queue is empty.
GapDone(i) ==
  /\ loops[i].stage = "gap"
  /\ loops[i].remaining = 0
  /\ IF queue = <<>>
     THEN /\ processing' = FALSE
          /\ loops' = Without(loops, i)
          /\ UNCHANGED <<queue, started, calls, sinceLastRequest, sinceStart,
                         lastSpacing>>
     ELSE /\ BeginTask(queue, Without(loops, i))
          /\ UNCHANGED processing
  /\ op' = "next"
  /\ UNCHANGED <<retry, added>>

\* The backoff of a caller is over: the next attempt goes to queueRequest.
BackoffDone(c) ==
  /\ retry[c].pc = "backoff"
  /\ retry[c].remaining = 0
  /\ retry' = [retry EXCEPT ![c].pc = "queued", ![c].attempt = @ + 1]
  /\ Add([caller |-> c, attempt |-> retry[c].attempt + 1])
  /\ op' = "retry"

\* Time passes: running timers come closer and the last request recedes.
\* A timer that is due fires before more time passes.
Tick ==
  /\ \A i \in 1..Len(loops) : loops[i].stage \in {"wait", "gap"} => loops[i].remaining > 0
  /\ \A c \in Callers : retry[c].pc = "backoff" => retry[c].remaining > 0
  /\ loops' = [i \in 1..Len(loops) |-> [loops[i] EXCEPT !.remaining = Elapse(@)]]
  /\ retry' = [c \in Callers |-> [retry[c] EXCEPT !.remaining = Elapse(@)]]
  /\ sinceLastRequest' = Age(sinceLastRequest)
  /\ sinceStart' = Age(sinceStart)
  /\ op' = "tick"
  /\ UNCHANGED <<queue, processing, added, started, calls, lastSpacing>>

outsideQueueVars ==
  <<base, baseQuality, out, outQuality, path, assumptions, timelineMonths, formVars,
    uiVars>>

NextQueue ==
  /\ \/ \E c \in Callers : Call(c)
     \/ \E i \in 1..Len(loops) : WaitDone(i)
     \/ \E i \in 1..Len(loops), outcome \in Outcomes : FnSettles(i, outcome)
     \/ \E i \in 1..Len(loops) : GapDone(i)
     \/ \E c \in Callers : BackoffDone(c)
     \/ Tick
  /\ UNCHANGED outsideQueueVars

\* Time passes, due timers fire, and the remote call settles.
FairQueue ==
  /\ WF_vars(Tick /\ UNCHANGED outsideQueueVars)
  /\ WF_vars((\E i \in 1..Len(loops) : WaitDone(i)) /\ UNCHANGED outsideQueueVars)
  /\ WF_vars((\E i \in 1..Len(loops), outcome \in Outcomes : FnSettles(i, outcome))
               /\ UNCHANGED outsideQueueVars)
  /\ WF_vars((\E i \in 1..Len(loops) : GapDone(i)) /\ UNCHANGED outsideQueueVars)
  /\ WF_vars((\E c \in Callers : BackoffDone(c)) /\ UNCHANGED outsideQueueVars)

SpecQueue == InitQueue /\ [][NextQueue]_vars /\ FairQueue

----------------------------------------------------------------------------
(* ResultsDashboard as a state machine: the user opens and closes the     *)
(* assumptions panel, moves its sliders and resets it, shows the scenario *)
(* comparison, selects a scenario and exports the report.                 *)

InitDashboard ==
  /\ FormUnused
  /\ QueueUnused
  /\ AppUnused
  /\ base \in DashboardResults
  /\ dashboard = InitialDashboard(base)
  /\ panel = Unmounted
  /\ baseQuality = STANDARD
  /\ out = base
  /\ outQuality = baseQuality
  /\ op = "init"
  /\ path = <<>>
  /\ assumptions = DefaultAssumptions
  /\ timelineMonths = DefaultInputs.timelineMonths

dashboardUnchanged ==
  UNCHANGED <<base, baseQuality, out, outQuality, path, assumptions, timelineMonths,
              formVars, queueVars, app>>

\* The effect of the panel after a render with new assumptions:
\* updateEstimation adjusts the base and reports to the dashboard, whose
\* handleAssumptionsChange stores both.
UpdateEstimation(a) ==
  LET baseEstimation == baseEstimationProp(base, dashboard.currentEstimation)
      newEstimation == applyAssumptions(baseEstimation, a)
  IN /\ panel' = [mounted |-> TRUE, assumptions |-> a,
                  adjustedEstimation |-> newEstimation,
                  reported |-> [assumptions |-> a, estimation |-> newEstimation]]
     /\ dashboard' = Rendered([dashboard EXCEPT !.showEditableAssumptions = TRUE,
                                                !.currentAssumptions = a,
                                                !.currentEstimation = newEstimation,
                                                !.report = Undefined])

\* The Edit Assumptions button: the panel is mounted with its initial
\* assumptions and its effect runs, or it is unmounted.
ToggleAssumptions ==
  /\ IF dashboard.showEditableAssumptions
     THEN /\ dashboard' = Rendered([dashboard EXCEPT !.showEditableAssumptions = FALSE,
                                                     !.report = Undefined])
          /\ panel' = Unmounted
     ELSE UpdateEstimation(DefaultAssumptions)
  /\ op' = "toggle"
  /\ dashboardUnchanged

\* A slider of the panel is moved: handleChange(key, value).
ChangeSlider(key, value) ==
  /\ panel.mounted
  /\ UpdateEstimation([panel.assumptions EXCEPT ![key] = value])
  /\ op' = "change"
  /\ dashboardUnchanged

\* The Reset button of the panel: handleReset.
ResetPanel ==
  /\ panel.mounted
  /\ UpdateEstimation(DefaultAssumptions)
  /\ op' = "reset"
  /\ dashboardUnchanged

\* handleShowScenarioComparison up to its await: without a comparison the
\* scenarios are requested, with one the table is shown or hidden.
ShowScenarioComparison ==
  /\ ~dashboard.isLoadingScenarios
  /\ dashboard' =
       IF dashboard.scenarioComparison = Undefined
       THEN [dashboard EXCEPT !.isLoadingScenarios = TRUE, !.report = Undefined]
       ELSE Rendered([dashboard EXCEPT !.showScenarioComparison = ~@,
                                       !.report = Undefined])
  /\ op' = "show"
  /\ UNCHANGED panel
  /\ dashboardUnchanged

\* generateScenarioComparison(projectInputs) resolves: the comparison is
\* stored and the table shown.
ScenariosLoaded(reply) ==
  /\ dashboard.isLoadingScenarios
  /\ dashboard' =
       Rendered([dashboard EXCEPT
                   !.scenarioComparison =
                      generateScenarioComparison(baseQuality, timelineMonths,
                                                 Undefined, reply),
                   !.isLoadingScenarios = FALSE,
                   !.showScenarioComparison = ~@,
                   !.report = Undefined])
  /\ op' = "loaded"
  /\ UNCHANGED panel
  /\ dashboardUnchanged

\* handleSelectScenario from the comparison table.
SelectScenario(scenario) ==
  /\ dashboard.showScenarioComparison
  /\ dashboard.scenarioComparison # Undefined
  /\ dashboard' =
       [dashboard EXCEPT
          !.currentEstimation = NumEstimate(dashboard.scenarioComparison[scenario]),
          !.showScenarioComparison = FALSE,
          !.report = Undefined]
  /\ op' = "select"
  /\ UNCHANGED panel
  /\ dashboardUnchanged

\* handleExportReport: the report handed to generatePDF.
ExportReport ==
  /\ dashboard' = [dashboard EXCEPT
                     !.report = [estimation |-> dashboard.currentEstimation,
                                 assumptions |-> dashboard.currentAssumptions]]
  /\ op' = "export"
  /\ UNCHANGED panel
  /\ dashboardUnchanged

AssumptionKeys ==
  {"materialCostMultiplier", "laborRateMultiplier", "equipmentCostMultiplier",
   "contingencyPercentage"}

NextDashboard ==
  \/ ToggleAssumptions
  \/ \E key \in AssumptionKeys : \E value \in PanelValues(key) : ChangeSlider(key, value)
  \/ ResetPanel
  \/ ShowScenarioComparison
  \/ \E reply \in DashboardReplies : ScenariosLoaded(reply)
  \/ \E scenario \in {"economy", "standard", "premium"} : SelectScenario(scenario)
  \/ ExportReport

SpecDashboard == InitDashboard /\ [][NextDashboard]_vars

----------------------------------------------------------------------------
(* App as a state machine: the form submits inputs to handleEstimate and  *)
(* the requests resolve.                                                  *)

InitApp ==
  /\ FormUnused
  /\ QueueUnused
  /\ DashboardUnused
  /\ app = InitialApp
  /\ base = Undefined
  /\ baseQuality = STANDARD
  /\ out = base
  /\ outQuality = baseQuality
  /\ op = "init"
  /\ path = <<>>
  /\ assumptions = DefaultAssumptions
  /\ timelineMonths = 0

appUnchanged ==
  UNCHANGED <<base, baseQuality, out, outQuality, path, assumptions, timelineMonths,
              formVars, queueVars, dashboard, panel>>

\* handleEstimate(inputs) up to its await.
HandleEstimate(submitted) ==
  /\ Len(app.inFlight) < MaxInFlight
  /\ app' = [app EXCEPT !.loading = TRUE,
                        !.estimationResult = Undefined,
                        !.currentInputs = submitted,
                        !.error = "null",
                        !.inFlight = Append(@, submitted)]
  /\ op' = "submit"
  /\ appUnchanged

\* generateConstructionEstimate(inputs) resolves for a request in flight:
\* handleEstimate stores the result and clears loading.
EstimateResolves(i, reply) ==
  /\ i \in 1..Len(app.inFlight)
  /\ app' = [app EXCEPT
               !.estimationResult =
                  generateConstructionEstimate(reply, app.inFlight[i].timelineMonths),
               !.resultInputs = app.inFlight[i],
               !.loading = FALSE,
               !.inFlight = Without(@, i)]
  /\ op' = "resolve"
  /\ appUnchanged

NextApp ==
  \/ \E submitted \in SubmittedInputs : HandleEstimate(submitted)
  \/ \E i \in 1..MaxInFlight, reply \in Replies : EstimateResolves(i, reply)

SpecApp == InitApp /\ [][NextApp]_vars

----------------------------------------------------------------------------
(* The estimator form as a state machine: fields are edited and the form  *)
(* is submitted; estimateCalls holds the argument of the latest call of   *)
(* onEstimate.                                                            *)

InitForm ==
  /\ QueueUnused
  /\ DashboardUnused
  /\ AppUnused
  /\ inputs = InitialInputs
  /\ error = "null"
  /\ estimateCalls = <<>>
  /\ base = Estimate(0, <<>>, <<>>, BaseReason)
  /\ baseQuality = STANDARD
  /\ out = base
  /\ outQuality = baseQuality
  /\ op = "init"
  /\ path = <<>>
  /\ assumptions = DefaultAssumptions
  /\ timelineMonths = 0

estimatorVars ==
  <<base, baseQuality, out, outQuality, path, assumptions, timelineMonths>>

HandleChange(name, value) ==
  /\ inputs' = handleChange(inputs, name, value)
  /\ op' = "change"
  /\ UNCHANGED <<error, estimateCalls>>
  /\ UNCHANGED estimatorVars
  /\ UNCHANGED queueVars
  /\ UNCHANGED uiVars

\* handleSubmit: with an empty or zero value the error is set and the
\* handler returns; otherwise the error is cleared and onEstimate is called.
HandleSubmit ==
  /\ IF SomeEmpty(inputs)
     THEN /\ error' = FillError
          /\ op' = "rejected"
          /\ UNCHANGED estimateCalls
     ELSE /\ error' = "null"
          /\ op' = "estimate"
          /\ estimateCalls' = <<inputs>>
  /\ UNCHANGED inputs
  /\ UNCHANGED estimatorVars
  /\ UNCHANGED queueVars
  /\ UNCHANGED uiVars

\* The submit button is clicked: the browser delivers the submit event
\* when the declared constraints hold.
SubmitClick == ConstraintsHold(inputs) /\ HandleSubmit

\* A submit event is dispatched on the form, which React hands to
\* handleSubmit without constraint validation.
SubmitEvent == HandleSubmit

NextForm ==
  \/ \E name \in numericFields, value \in NumericTexts : HandleChange(name, value)
  \/ \E value \in LocationTexts : HandleChange("location", value)
  \/ \E value \in QualityLevel : HandleChange("quality", value)
  \/ SubmitClick
  \/ SubmitEvent

SpecForm == InitForm /\ [][NextForm]_vars

----------------------------------------------------------------------------
(* Properties of the Scenario Deriver, under SpecDerive *)

BreakdownConsistent(e) == SumCost(e.breakdown) = e.totalEstimatedCost
CashflowConsistent(e) == SumAmount(e.cashflow) = e.totalEstimatedCost

\* C2: for a base whose breakdown sums to its total, the total of every
\* derived scenario is exactly the sum of its own rounded breakdown costs.
C2_DeriverSumInvariant ==
  (op = "derive" /\ BreakdownConsistent(base))
    => out.totalEstimatedCost = SumCost(out.breakdown)

\* A scenario of another quality, of two or more items, whose total moved.
C2_Witness ==
  /\ op = "derive" /\ Len(path) = 1 /\ outQuality # baseQuality
  /\ BreakdownConsistent(base)
  /\ Len(out.breakdown) >= 2
  /\ out.totalEstimatedCost # base.totalEstimatedCost
  /\ out.totalEstimatedCost = SumCost(out.breakdown)

\* The class the ratio table's words give each category drawn, in the stated
\* order: material, labor|wage|manpower, equipment|tool, permit|approval,
\* contingency, otherwise default.
TableClass(category) ==
  CASE category = <<"M","a","t","e","r","i","a","l","s">> -> "material"
    [] category = <<"L","a","b","o","r"," ","&"," ","M","a","t","e","r","i","a","l","s">>
         -> "material"
    [] category = <<"L","a","b","o","r">> -> "labor"
    [] category = <<"W","a","g","e","s">> -> "labor"
    [] category = <<"M","a","n","p","o","w","e","r">> -> "labor"
    [] category = <<"E","q","u","i","p","m","e","n","t">> -> "equipment"
    [] category = <<"P","o","w","e","r"," ","T","o","o","l","s">> -> "equipment"
    [] category = <<"P","e","r","m","i","t","s">> -> "fixed"
    [] category = <<"A","p","p","r","o","v","a","l","s">> -> "fixed"
    [] category = <<"C","o","n","t","i","n","g","e","n","c","y">> -> "fixed"
    [] OTHER -> "default"

\* The ratio table in hundredths: Economy / Standard / Premium.
TableValue(class, quality) ==
  LET row == CASE class = "material" -> <<70, 100, 150>>
               [] class = "labor" -> <<80, 100, 130>>
               [] class = "equipment" -> <<90, 100, 110>>
               [] class = "fixed" -> <<100, 100, 100>>
               [] OTHER -> <<75, 100, 135>>
  IN CASE quality = ECONOMY -> row[1] [] quality = STANDARD -> row[2] [] OTHER -> row[3]

\* C5: deriving another quality sets every item's cost to
\* round(oldCost * table[type][target] / table[type][base]) with the type
\* chosen in the stated order; a material item of 1000 at Standard becomes
\* 700 at Economy and 1500 at Premium.
C5_CategoryRatioTable ==
  (op = "derive" /\ Len(path) = 1 /\ outQuality # baseQuality) =>
    /\ Len(out.breakdown) = Len(base.breakdown)
    /\ \A i \in 1..Len(base.breakdown) :
         LET item == base.breakdown[i]
             class == TableClass(item.category)
             num == TableValue(class, outQuality)
             den == TableValue(class, baseQuality)
         IN /\ out.breakdown[i].category = item.category
            /\ out.breakdown[i].cost = Round(item.cost * num, den)
            /\ (class = "material" /\ item.cost = 1000 /\ baseQuality = STANDARD)
                 => out.breakdown[i].cost = (IF outQuality = ECONOMY THEN 700 ELSE 1500)

\* A category matching two words ("Labor & Materials") was scaled as material.
C5_Witness ==
  /\ op = "derive" /\ Len(path) = 1
  /\ baseQuality = STANDARD /\ outQuality = PREMIUM
  /\ \E i \in 1..Len(base.breakdown) :
       /\ base.breakdown[i].category =
            <<"L","a","b","o","r"," ","&"," ","M","a","t","e","r","i","a","l","s">>
       /\ base.breakdown[i].cost = 10
       /\ out.breakdown[i].cost = 15

\* C6 as stated: the Standard fixture of 1000000 derived to Economy has costs
\* 315000, 240000, 90000, 50000, 100000, total 745000, and every month's
\* amount is the base month's rescaled by 745000/1000000.
C6_FixedScenarioAsStated ==
  (op = "derive" /\ base = Fixture /\ baseQuality = STANDARD /\ path = <<ECONOMY>>) =>
    /\ [i \in 1..Len(out.breakdown) |-> out.breakdown[i].cost]
         = <<315000, 240000, 90000, 50000, 100000>>
    /\ out.totalEstimatedCost = 745000
    /\ \A i \in 1..Len(out.cashflow) :
         out.cashflow[i].amount * 200 = base.cashflow[i].amount * 149

\* C6, amended: the Standard fixture of 1000000 derived to Economy has costs
\* 315000, 240000, 90000, 50000, 100000, total 795000 (their sum), and every
\* month's amount is the base month's rescaled by 795000/1000000.
C6_FixedScenario ==
  (op = "derive" /\ base = Fixture /\ baseQuality = STANDARD /\ path = <<ECONOMY>>) =>
    /\ [i \in 1..Len(out.breakdown) |-> out.breakdown[i].cost]
         = <<315000, 240000, 90000, 50000, 100000>>
    /\ out.totalEstimatedCost = 795000
    /\ Len(out.cashflow) = Len(base.cashflow)
    /\ \A i \in 1..Len(out.cashflow) :
         /\ out.cashflow[i].amount * 200 = base.cashflow[i].amount * 159
         /\ out.cashflow[i].month = base.cashflow[i].month
         /\ out.cashflow[i].phase = base.cashflow[i].phase

C6_Witness ==
  /\ op = "derive" /\ base = Fixture /\ baseQuality = STANDARD /\ path = <<ECONOMY>>
  /\ out.totalEstimatedCost = SumCost(out.breakdown)
  /\ out.cashflow[2].amount = 198750

\* C7: deriving the base's own quality returns the base unchanged in every field.
C7_ScenarioIdentity ==
  (op = "derive" /\ Len(path) = 1 /\ outQuality = baseQuality) => out = base

\* The identity derivation of an estimate whose texts name its quality.
C7_Witness ==
  /\ op = "derive" /\ Len(path) = 1 /\ outQuality = baseQuality
  /\ baseQuality = STANDARD
  /\ Len(base.breakdown) >= 1
  /\ includes(base.summary, toLowerCase(STANDARD))
  /\ out = base

\* C8: every cost of Premium derived from an Economy base differs by at most
\* 1 from the cost of Premium derived from Standard derived from that base.
C8_RoundTrip ==
  (op = "derive" /\ baseQuality = ECONOMY /\ path = <<STANDARD, PREMIUM>>) =>
    LET direct == deriveScenarioFromBase(base, ECONOMY, PREMIUM) IN
    /\ Len(out.breakdown) = Len(direct.breakdown)
    /\ \A i \in 1..Len(out.breakdown) :
         Abs(out.breakdown[i].cost - direct.breakdown[i].cost) <= 1

\* A cost where the two routes differ by exactly 1.
C8_Witness ==
  /\ op = "derive" /\ baseQuality = ECONOMY /\ path = <<STANDARD, PREMIUM>>
  /\ \E i \in 1..Len(out.breakdown) :
       Abs(out.breakdown[i].cost
             - deriveScenarioFromBase(base, ECONOMY, PREMIUM).breakdown[i].cost) = 1

\* C3: for a total >= 0 and a timeline of 1..60 months, when the input
\* cashflow is missing, empty or of another length, the result has exactly
\* timelineMonths entries with months 1, 2, ... in order and amounts that
\* sum exactly to the total.
C3_NormalizerGuarantee ==
  ( /\ op = "validate"
    /\ base.totalEstimatedCost >= 0
    /\ timelineMonths \in 1..60
    /\ (CashflowMissing(base) \/ Len(base.cashflow) # timelineMonths) )
    => /\ Len(out.cashflow) = timelineMonths
       /\ \A i \in 1..timelineMonths : out.cashflow[i].month = i
       /\ SumAmount(out.cashflow) = out.totalEstimatedCost
       /\ out.totalEstimatedCost = base.totalEstimatedCost

\* A regenerated cashflow whose last month took up a rounding difference.
C3_Witness ==
  /\ op = "validate"
  /\ CashflowMissing(base)
  /\ timelineMonths = 7
  /\ base.totalEstimatedCost = 1000
  /\ Len(out.cashflow) = 7
  /\ SumAmount(out.cashflow) = 1000
  /\ out.cashflow[7].amount # out.cashflow[6].amount

\* C10: for a base with total > 0 whose breakdown and cashflow both sum to
\* the total, the cashflow of a scenario of another quality sums to the
\* scenario's total within 1 currency unit.
C10_DeriverCashflowInvariant ==
  ( /\ op = "derive" /\ Len(path) = 1 /\ outQuality # baseQuality
    /\ base.totalEstimatedCost > 0
    /\ BreakdownConsistent(base) /\ CashflowConsistent(base) )
    => Abs(SumAmount(out.cashflow) - out.totalEstimatedCost) <= 1

----------------------------------------------------------------------------
(* Properties of the Assumption Adjuster, under SpecAdjust *)

\* Whether finite x and y differ by at most 1.
WithinOne(x, y) == IsFinite(x) /\ IsFinite(y) /\ NumLeq(NumAbs(NumSub(x, y)), NumInt(1))

IsContingency(item) == includes(toLowerCase(item.category), KwContingency)

\* C1: for a base whose breakdown sums to its total and valid assumptions,
\* the breakdown of applyAssumptions' result sums to its total within 1.
C1_AdjusterSumInvariant ==
  (op = "apply" /\ BreakdownConsistent(base))
    => WithinOne(NumSumCost(out.breakdown), out.totalEstimatedCost)

\* C4: after applyAssumptions, the cost of an item whose category contains
\* 'contingency' is contingencyPercentage/100 times the sum of the other
\* items' adjusted costs.
C4_ContingencyRecompute ==
  (op = "apply") =>
    \A i \in 1..Len(out.breakdown) :
      IsContingency(out.breakdown[i]) =>
        out.breakdown[i].cost =
          NumMul(NumDiv(assumptions.contingencyPercentage, NumInt(100)),
                 NumSumCost(SelectSeq(out.breakdown, LAMBDA x : ~IsContingency(x))))

\* C9: for a base with total # 0 whose cashflow sums to its total,
\* applyAssumptions multiplies every month's amount by newTotal/oldTotal,
\* the resulting amounts sum to the resulting total, and the number, month
\* numbers and phases of the entries are unchanged.
C9_AdjusterCashflowRescale ==
  (op = "apply" /\ base.totalEstimatedCost # 0 /\ CashflowConsistent(base)) =>
    LET factor == NumDiv(out.totalEstimatedCost, NumInt(base.totalEstimatedCost)) IN
    /\ Len(out.cashflow) = Len(base.cashflow)
    /\ \A i \in 1..Len(base.cashflow) :
         /\ out.cashflow[i].amount = NumMul(NumInt(base.cashflow[i].amount), factor)
         /\ out.cashflow[i].month = base.cashflow[i].month
         /\ out.cashflow[i].phase = base.cashflow[i].phase
    /\ WithinOne(NumSumAmount(out.cashflow), out.totalEstimatedCost)

\* A cashflow of three or more months rescaled to a larger total.
C9_Witness ==
  /\ op = "apply" /\ base.totalEstimatedCost # 0 /\ CashflowConsistent(base)
  /\ Len(base.cashflow) >= 3
  /\ assumptions.materialCostMultiplier = NumInt(2)
  /\ assumptions.contingencyPercentage = NumInt(25)
  /\ out.totalEstimatedCost = NumMul(NumInt(base.totalEstimatedCost), Rat(5, 2))
  /\ NumSumAmount(out.cashflow) = out.totalEstimatedCost

----------------------------------------------------------------------------
(* Properties of the estimator form, under SpecForm *)

\* C20: onEstimate is called only with inputs in which every numeric field
\* is strictly greater than 0 and location is not empty; a submit with a
\* numeric field <= 0 sets the form's error and calls nothing.
C20_InputValidity ==
  /\ \A k \in 1..Len(estimateCalls) :
       /\ \A f \in numericFields : estimateCalls[k][f] > 0
       /\ estimateCalls[k].location # ""
  /\ (op \in {"estimate", "rejected"} /\ \E f \in numericFields : inputs[f] <= 0)
       => (op = "rejected" /\ error = FillError)

----------------------------------------------------------------------------
(* Properties of the regenerated schedule, under SpecNormalize *)

\* The cashflow of the validated result was regenerated.
Regenerated == CashflowMissing(base) \/ Len(base.cashflow) # timelineMonths

\* The amounts of a schedule with the given weights <<numerator, denominator>>:
\* round(total * weight), and the residual added to the last month.
ScheduleAmounts(total, months, weight(_)) ==
  LET rounded == [m \in 1..months |-> RoundMul(total, weight(m)[1], weight(m)[2])]
      residual == total - SumAmount(CashflowOf(rounded))
  IN [m \in 1..months |-> IF m = months THEN rounded[m] + residual ELSE rounded[m]]

\* The weights of a long timeline as stated: 0.10 for each of months 1 and 2,
\* 0.05 for each of the last two, 0.60 split evenly over the months between.
StatedLongWeight(month, months) ==
  IF month <= 2 THEN <<10, 100>>
  ELSE IF month <= months - 2 THEN <<60, 100 * (months - 4)>>
  ELSE <<5, 100>>

StatedLongPhase(month, months) ==
  IF month <= 2 THEN "Initial setup & foundation"
  ELSE IF month <= months - 2 THEN "Main construction work"
  ELSE "Finishing & handover"

\* C12: for a timeline of more than 6 months the regenerated cashflow gives
\* months 1 and 2 the weight 0.10 each, the last two months 0.05 each and
\* the months between 0.60 split evenly, each amount being round(total *
\* weight) before the residual is added to the last month, under the labels
\* 'Initial setup & foundation', 'Main construction work' and 'Finishing &
\* handover'.
C12_LongTimelineSchedule ==
  (op = "validate" /\ Regenerated /\ timelineMonths > 6) =>
    LET stated == ScheduleAmounts(base.totalEstimatedCost, timelineMonths,
                                  LAMBDA m : StatedLongWeight(m, timelineMonths))
    IN \A m \in 1..timelineMonths :
         /\ out.cashflow[m].amount = stated[m]
         /\ out.cashflow[m].phase = StatedLongPhase(m, timelineMonths)

\* The number of months of the timeline that map to the phase of a month.
MonthsInPhase(month, months) ==
  Cardinality({m \in 1..months : PhaseKey(m, months) = PhaseKey(month, months)})

\* The weight of a medium timeline as stated: the phase's weight divided by
\* the number of months that map to the phase.
StatedMediumWeight(month, months) ==
  <<phaseDistribution(PhaseKey(month, months)).percentage,
    100 * MonthsInPhase(month, months)>>

\* C13: for a timeline of 4 to 6 months each month maps to phase
\* min(5, ceil(month / timelineMonths * 5)) of {0.15, 0.25, 0.30, 0.20, 0.10}
\* and receives the phase's weight divided by the number of months mapped to
\* that phase, before rounding and the residual of the last month.
C13_MediumTimelineSchedule ==
  (op = "validate" /\ Regenerated /\ timelineMonths >= 4 /\ timelineMonths <= 6) =>
    LET stated == ScheduleAmounts(base.totalEstimatedCost, timelineMonths,
                                  LAMBDA m : StatedMediumWeight(m, timelineMonths))
    IN \A m \in 1..timelineMonths :
         /\ out.cashflow[m].amount = stated[m]
         /\ out.cashflow[m].phase = phaseDistribution(PhaseKey(m, timelineMonths)).phase

\* C14: every monthly amount of a regenerated cashflow is >= 0, the last
\* month with its residual included.
C14_NonNegativeSchedule ==
  (op = "validate" /\ Regenerated) =>
    \A m \in 1..Len(out.cashflow) : out.cashflow[m].amount >= 0

ScheduleLabels ==
  {"Setup & major work", "Completion work", "Final touches",
   "Initial setup & foundation", "Main construction work", "Finishing & handover"}
    \cup {phaseDistribution(k).phase : k \in 1..5}

\* C15: validateCashflow regenerates the cashflow if and only if the input
\* cashflow is missing or its length differs from timelineMonths; a result
\* whose cashflow has the length of the timeline is returned unchanged, and
\* in both cases every field other than cashflow is unchanged.
C15_NormalizerTrigger ==
  op = "validate" =>
    /\ \A f \in DOMAIN base \ {"cashflow"} : f \in DOMAIN out /\ out[f] = base[f]
    /\ DOMAIN out = DOMAIN base \cup {"cashflow"}
    /\ IF Regenerated
       THEN /\ Len(out.cashflow) = timelineMonths
            /\ \A m \in 1..timelineMonths :
                 /\ out.cashflow[m].month = m
                 /\ out.cashflow[m].phase \in ScheduleLabels
            /\ out.cashflow = CorrectedCashflow(base.totalEstimatedCost, timelineMonths)
       ELSE out = base

\* A cashflow of the timeline's length that a regeneration would have
\* replaced is returned as it was.
C15_Witness ==
  /\ op = "validate"
  /\ ~Regenerated
  /\ timelineMonths >= 2
  /\ base.totalEstimatedCost > 0
  /\ out.cashflow = base.cashflow
  /\ out.cashflow # CorrectedCashflow(base.totalEstimatedCost, timelineMonths)

----------------------------------------------------------------------------
(* Classification and error handling of the Assumption Adjuster, under    *)
(* SpecAdjust                                                             *)

\* The class of a category as stated: material, then labor|wage|manpower,
\* then equipment|tool, then contingency, otherwise none.
StatedAdjusterClass(category) ==
  LET cat == toLowerCase(category) IN
  IF includes(cat, KwMaterial) THEN "material"
  ELSE IF includes(cat, KwLabor) \/ includes(cat, KwWage) \/ includes(cat, KwManpower)
  THEN "labor"
  ELSE IF includes(cat, KwEquipment) \/ includes(cat, KwTool) THEN "equipment"
  ELSE IF includes(cat, KwContingency) THEN "contingency"
  ELSE "none"

StatedAdjusterMultiplier(class, a) ==
  CASE class = "material" -> a.materialCostMultiplier
    [] class = "labor" -> a.laborRateMultiplier
    [] class = "equipment" -> a.equipmentCostMultiplier
    [] OTHER -> NumInt(1)

\* C16: applyAssumptions classifies an item by the first match of material,
\* labor|wage|manpower, equipment|tool, contingency in its lower-cased
\* category and multiplies the cost of a material, labor or equipment item
\* by the multiplier of its class; an item matching no word keeps its cost.
C16_AdjusterClassification ==
  (op = "apply") =>
    \A i \in 1..Len(base.breakdown) :
      LET class == StatedAdjusterClass(base.breakdown[i].category) IN
      class # "contingency" =>
        out.breakdown[i].cost =
          NumMul(NumInt(base.breakdown[i].cost), StatedAdjusterMultiplier(class, assumptions))

\* C17: with a base total of 0 applyAssumptions divides by nothing and
\* returns the base's cashflow amounts unscaled, never NaN or Infinity.
C17_AdjusterZeroTotalGuard ==
  (op = "apply" /\ base.totalEstimatedCost = 0) =>
    \A i \in 1..Len(base.cashflow) :
      /\ IsFinite(out.cashflow[i].amount)
      /\ out.cashflow[i].amount = NumInt(base.cashflow[i].amount)

\* C18: applyAssumptions raises for no base; an item whose category is
\* missing, empty or outside the vocabulary keeps its cost.
C18_AdjusterNeverThrows ==
  /\ op # "throw"
  /\ (op = "apply") =>
       \A i \in 1..Len(base.breakdown) :
         StatedAdjusterClass(base.breakdown[i].category) = "none" =>
           out.breakdown[i].cost = NumInt(base.breakdown[i].cost)

----------------------------------------------------------------------------
(* Properties of the scenario comparison, under SpecCompare *)

\* The entry of a comparison for a quality.
Entry(comparison, quality) ==
  IF quality = ECONOMY THEN comparison.economy
  ELSE IF quality = PREMIUM THEN comparison.premium
  ELSE comparison.standard

C19_ScenarioFallback ==
  (op = "compare" /\ base = Undefined) =>
    /\ DOMAIN out = {"economy", "standard", "premium"}
    /\ path = <<"rejected">> =>
         /\ out = generateHardcodedScenarios
         /\ out.economy.confidenceScore = 70
         /\ out.standard.confidenceScore = 85
         /\ out.premium.confidenceScore = 80
         /\ \A q \in QualityLevel :
              Entry(out, q).breakdown = <<>> /\ Entry(out, q).cashflow = <<>>
    /\ path # <<"rejected">> =>
         \/ out = generateHardcodedScenarios
         \/ /\ out.economy = deriveScenarioFromBase(out.standard, STANDARD, ECONOMY)
            /\ out.premium = deriveScenarioFromBase(out.standard, STANDARD, PREMIUM)

\* C21: generateScenarioComparison and any number of renders of
\* ScenarioComparisonTable leave the anchor estimate as it was, the order
\* and the costs of its breakdown included.
C21_BaseNeverChanged == [][base' = base]_vars

----------------------------------------------------------------------------
(* Properties of the estimator, under SpecEstimate *)

\* C22: every estimate generateConstructionEstimate returns, on the
\* success path, after a parse failure and after a failed call, has a
\* cashflow of exactly timelineMonths entries numbered 1..timelineMonths.
C22_EstimatorValidity ==
  (op = "estimate") =>
    /\ "cashflow" \in DOMAIN out
    /\ Len(out.cashflow) = timelineMonths
    /\ \A m \in 1..Len(out.cashflow) : out.cashflow[m].month = m

\* The tasks callers pass to the queue: one per attempt of a caller.
Tasks == [caller : Callers, attempt : 0..MAX_RETRIES]

\* The elements of a sequence.
Range(seq) == {seq[i] : i \in 1..Len(seq)}

\* C23: whatever the interleaving of concurrent callers, at most one task
\* of the queue, and so at most one remote call, is executing at any time,
\* and a second process loop is never started while one is active.
C23_SerializedCalls ==
  /\ Len(loops) <= 1
  /\ Cardinality({i \in 1..Len(loops) : loops[i].stage \in {"wait", "call"}}) <= 1
  /\ Cardinality({i \in 1..Len(loops) : loops[i].stage = "call"}) <= 1

\* A remote call is executing while two other callers' tasks are queued.
C23_Witness ==
  /\ loops # <<>>
  /\ loops[1].stage = "call"
  /\ Len(queue) >= 2

\* C25: the starts of any two consecutive remote calls are at least
\* MIN_REQUEST_INTERVAL apart.
C25_MinimumSpacing == lastSpacing >= MIN_REQUEST_INTERVAL

\* A task waited for the rest of the interval and its remote call, not the
\* first one, has just begun.
C25_Witness ==
  /\ op = "invoke"
  /\ \E c \in Callers, d \in Callers : c # d /\ calls[c] >= 1 /\ calls[d] >= 1

\* C26: retryWithBackoff invokes fn at most maxRetries + 1 times, attempts
\* again only after a rate-limit error, after the stated delay, returns the
\* first success, rethrows any other error at once and the rate-limit
\* error after the last allowed attempt, and a finished call stays
\* finished; it ends whenever fn settles.
C26_BoundedRetry ==
  /\ [](\A c \in Callers :
          /\ calls[c] <= MAX_RETRIES + 1
          /\ retry[c].attempt <= MAX_RETRIES
          /\ retry[c].pc = "queued" /\ retry[c].attempt > 0 =>
               isRateLimit(retry[c].last)
          /\ retry[c].pc = "backoff" =>
               /\ isRateLimit(retry[c].last)
               /\ retry[c].attempt < MAX_RETRIES
               /\ retry[c].delay = BASE_DELAY * Pow2(retry[c].attempt)
          /\ retry[c].last = Response => retry[c].pc = "returned"
          /\ retry[c].pc = "returned" =>
               retry[c].last = Response /\ calls[c] = retry[c].attempt + 1
          /\ retry[c].last \in Errors /\ ~isRateLimit(retry[c].last) =>
               retry[c].pc = "thrown"
          /\ retry[c].pc = "thrown" =>
               /\ retry[c].last \in Errors
               /\ calls[c] = retry[c].attempt + 1
               /\ isRateLimit(retry[c].last) => retry[c].attempt = MAX_RETRIES)
  /\ [][\A c \in Callers :
          retry[c].pc \in {"returned", "thrown"} =>
            retry'[c] = retry[c] /\ calls'[c] = calls[c]]_vars
  /\ \A c \in Callers :
       (retry[c].pc = "queued") ~> (retry[c].pc \in {"returned", "thrown"})

\* A call was rate-limited on every allowed attempt and rethrew the error.
C26_Witness ==
  \E c \in Callers :
    /\ retry[c].pc = "thrown"
    /\ calls[c] = MAX_RETRIES + 1
    /\ isRateLimit(retry[c].last)

\* C24: every task added is eventually started when the earlier tasks
\* settle, tasks start in the order they were added, a rejection reaches
\* the task's own caller only and does not stop later tasks, a task added
\* while the loop is busy or pausing is not lost, and the queue is idle
\* again once it is empty.
C24_QueueProgressAndOrder ==
  /\ [](added = started \o queue)
  /\ [][\A c \in Callers :
          op' = "settle" /\ retry'[c] # retry[c] =>
            \E i \in 1..Len(loops) : loops[i].stage = "call" /\ loops[i].task.caller = c]_vars
  /\ \A t \in Tasks : (t \in Range(added)) ~> (t \in Range(started))
  /\ (queue = <<>>) ~> (processing = FALSE \/ queue # <<>>)

\* A task rejected and its caller rethrew, and two tasks added while the
\* loop was busy were started after it, in the order they were added.
C24_Witness ==
  \E k \in 1..Len(started) :
    /\ retry[started[k].caller].pc = "thrown"
    /\ retry[started[k].caller].attempt = started[k].attempt
    /\ Len(started) >= k + 2
    /\ Len(added) > Len(started)

\* C27: after any sequence of slider changes and Reset clicks the panel
\* reports applyAssumptions(original base estimation, current assumptions),
\* never an adjustment of an adjusted estimate, and after Reset
\* applyAssumptions(base, {1.0, 1.0, 1.0, 10}).
C27_NeverCompound ==
  panel.reported # Undefined =>
    /\ panel.reported.assumptions = panel.assumptions
    /\ panel.reported.estimation = applyAssumptions(base, panel.assumptions)
    /\ op = "reset" =>
         panel.reported.estimation = applyAssumptions(base, DefaultAssumptions)

\* Two sliders were moved off their initial positions, one after the other.
C27_Witness ==
  /\ op = "change"
  /\ panel.reported # Undefined
  /\ panel.assumptions.materialCostMultiplier = NumInt(2)
  /\ panel.assumptions.contingencyPercentage = NumInt(25)

\* C30: the estimation and the assumptions handed to generatePDF are
\* consistent: the estimation equals applyAssumptions(result, assumptions)
\* for the original result prop.
C30_ReportPairing ==
  dashboard # Undefined /\ dashboard.report # Undefined =>
    dashboard.report.estimation = applyAssumptions(base, dashboard.report.assumptions)

\* C28: whenever loading is false and estimationResult is non-null the
\* result was produced from currentInputs, and loading is true whenever a
\* request is in flight.
C28_DisplayedMatchesInputs ==
  /\ ~app.loading /\ app.estimationResult # Undefined =>
       app.resultInputs = app.currentInputs
  /\ app.inFlight # <<>> => app.loading

============================================================================
